---- MODULE Spec2Model ----
(***************************************************************************)
(* The indexing engine of blobscan-indexer.rs: the Indexer coordinator     *)
(* (src/src/indexer/mod.rs), its realtime and historical tasks, and the    *)
(* chunked, multi-worker Synchronizer (src/src/synchronizer/mod.rs).       *)
(***************************************************************************)
EXTENDS Integers, Sequences, FiniteSets, TLC

(* ------------------------------ bounds --------------------------------- *)
\* largest slot number carried by an input (sink state, override, event)
MaxSlot == 3
\* largest configured num_threads
MaxThreads == 2
\* largest configured slots_per_save
MaxChunk == 2
\* max_retries of the historical task's loop, scaled down
MaxRetries == 2
\* max_retries of the stream's and of get_sync_state's retry loop, scaled down
MaxStreamRetries == 1
\* number of stream items the realtime task consumes in one behaviour
MaxEvents == 2
\* largest depth carried by a chain_reorg event
MaxDepth == 2
\* number of checkpoint writes followed in a sweep whose chunk size is 0
MaxWrites == 2
\* max_retries of each retry loop of process_slot, scaled down (eight
\* doublings take the delay from 5 s past its cap)
MaxStepRetries == 8
\* number of bytes of an H256, scaled down from 32
HashLen == 2
\* longest text, besides the handwritten ones, given to BlockId::from_str
MaxText == 3

(* ------------------------- program constants --------------------------- *)
\* stands for u32::MAX, the value a wrapping u32 subtraction 0 - 1 produces:
\* the largest integer TLC represents, above every other slot of the model
U32Max == 2147483647
\* Config.slots_checkpoint when no slots_per_save is given
DefaultSlotsCheckpoint == 1000
\* Option::None of an Option<u32>
NoSlot == -1

Min(a, b) == IF a < b THEN a ELSE b

Tasks == {"rt", "hist"}
SlotTop == MaxSlot + 1
Slots == 0..MaxSlot

(* ------------------------------ BlockId -------------------------------- *)
BlockIdHead == [tag |-> "Head", slot |-> 0]
BlockIdSlot(n) == [tag |-> "Slot", slot |-> n]
NoBlockId == [tag |-> "None", slot |-> 0]
BlockIdFinalized == [tag |-> "Finalized", slot |-> 0]
BlockIdHash(h) == [tag |-> "Hash", slot |-> 0, hash |-> h]
\* the Err(String) of BlockId::from_str
BlockIdErr == [tag |-> "Err", slot |-> 0]

\* no conversion under way
IdleBid == [pc |-> "idle", id |-> NoBlockId, text |-> <<>>, parsed |-> NoBlockId]

\* a text is the sequence of its characters
HexChars == <<"0", "1", "2", "3", "4", "5", "6", "7", "8", "9",
              "a", "b", "c", "d", "e", "f">>
StrHead == <<"h", "e", "a", "d">>
StrFinalized == <<"f", "i", "n", "a", "l", "i", "z", "e", "d">>
Str0x == <<"0", "x">>

IsDecChar(c) == \E d \in 0..9 : HexChars[d + 1] = c
IsHexChar(c) == \E d \in 0..15 : HexChars[d + 1] = c
DigitValue(c) == CHOOSE d \in 0..15 : HexChars[d + 1] = c

\* u32::to_string: the decimal digits, most significant first
RECURSIVE U32ToString(_)
U32ToString(n) ==
    IF n < 10 THEN <<HexChars[n + 1]>>
    ELSE Append(U32ToString(n \div 10), HexChars[(n % 10) + 1])

\* format!("{:x}", hash): two lowercase hex digits per byte, no prefix
RECURSIVE LowerHex(_)
LowerHex(h) ==
    IF h = <<>> THEN <<>>
    ELSE <<HexChars[(Head(h) \div 16) + 1], HexChars[(Head(h) % 16) + 1]>>
         \o LowerHex(Tail(h))

ToDetailedString_NoPrefix(id) ==
    CASE id.tag = "Head" -> StrHead
      [] id.tag = "Finalized" -> StrFinalized
      [] id.tag = "Slot" -> U32ToString(id.slot)
      [] id.tag = "Hash" -> LowerHex(id.hash)

\* BlockId::to_detailed_string
ToDetailedString(id) ==
    CASE id.tag = "Head" -> StrHead
      [] id.tag = "Finalized" -> StrFinalized
      [] id.tag = "Slot" -> U32ToString(id.slot)
      [] id.tag = "Hash" -> Str0x \o LowerHex(id.hash)

\* the digits of s from position i on, accumulated with checked arithmetic
RECURSIVE ParseDigits(_, _, _)
ParseDigits(s, i, acc) ==
    IF i > Len(s) THEN [ok |-> TRUE, num |-> acc]
    ELSE IF ~IsDecChar(s[i]) THEN [ok |-> FALSE, num |-> 0]
    ELSE IF acc > (U32Max - DigitValue(s[i])) \div 10
         THEN [ok |-> FALSE, num |-> 0]
    ELSE ParseDigits(s, i + 1, acc * 10 + DigitValue(s[i]))

\* s.parse::<u32>(): an optional "+", then one decimal digit or more, and
\* no overflow
ParseU32(s) ==
    LET digits == IF s # <<>> /\ Head(s) = "+" THEN Tail(s) ELSE s
    IN  IF digits = <<>> THEN [ok |-> FALSE, num |-> 0]
        ELSE ParseDigits(digits, 1, 0)

StartsWith0x(s) == Len(s) >= 2 /\ SubSeq(s, 1, 2) = Str0x

\* the bytes that a sequence of pairs of hex digits stands for
RECURSIVE FromHex(_)
FromHex(hex) ==
    IF hex = <<>> THEN <<>>
    ELSE <<DigitValue(hex[1]) * 16 + DigitValue(hex[2])>>
         \o FromHex(SubSeq(hex, 3, Len(hex)))

\* H256::from_str: an optional "0x", then exactly two hex digits per byte
H256FromStr(s) ==
    LET hex == IF StartsWith0x(s) THEN SubSeq(s, 3, Len(s)) ELSE s
    IN  IF Len(hex) = 2 * HashLen /\ \A i \in 1..Len(hex) : IsHexChar(hex[i])
        THEN [ok |-> TRUE, hash |-> FromHex(hex)]
        ELSE [ok |-> FALSE, hash |-> <<>>]

\* <BlockId as FromStr>::from_str
FromStr(s) ==
    IF s = StrHead THEN BlockIdHead
    ELSE IF s = StrFinalized THEN BlockIdFinalized
    ELSE IF ParseU32(s).ok THEN BlockIdSlot(ParseU32(s).num)
    ELSE IF StartsWith0x(s)
         THEN IF H256FromStr(s).ok THEN BlockIdHash(H256FromStr(s).hash)
              ELSE BlockIdErr
    ELSE BlockIdErr

\* no index call made
NoCall == [made |-> FALSE, transactions |-> <<>>, blobs |-> {}]

\* a SlotProcessor::process_slot call not yet made. commitments and sidecar
\* are NoSlot for an absent Option, otherwise the length of the list;
\* transactions holds, per transaction of the execution block, the number of
\* its blob versioned hashes (0 for a transaction that carries no blob)
IdleSp == [pc |-> "idle", beacon |-> "none", commitments |-> NoSlot,
           execution |-> "none", transactions |-> <<>>, sidecar |-> NoSlot,
           index |-> NoCall, error |-> "none"]

\* a runtime of one thread on which no task sleeps
IdleSched == [threads |-> 1, asleep |-> {}]

VARIABLES
    args,        \* the Indexer's configuration and run's two arguments
    sync_state,  \* the sink's BlockchainSyncState
    co,          \* Indexer::run: position, retries, task counters, cursors
    chan,        \* messages in flight on the completion channel
    senders,     \* holders of a live Sender of the completion channel
    rt,          \* the realtime task
    hist,        \* the historical task
    sync,        \* one Synchronizer::run per task
    sink_log,    \* calls received by the sink's handle_reorged_slots
    headers,     \* the beacon node's block headers, by block root
    ps,          \* one SlotsProcessor::process_slot call
    bid,         \* one BlockId rendered to its URL form and parsed back
    sp,          \* one SlotProcessor::process_slot call of a synchronizer worker
    sched        \* the runtime's threads and the tasks that hold one in a blocking sleep

vars == <<args, sync_state, co, chan, senders, rt, hist, sync, sink_log, headers, ps, bid, sp, sched>>

(* ----------------------------- Synchronizer ---------------------------- *)

CheckpointTypeOf_IgnoreDisabled(t) == IF t = "rt" THEN "Upper" ELSE "Lower"

\* Indexer::_create_synchronizer: the disabled flag overrides the task's type
CheckpointTypeOf(t) ==
    IF args.disable_sync_checkpoint_save THEN "Disabled"
    ELSE IF t = "rt" THEN "Upper" ELSE "Lower"

\* Indexer::_create_synchronizer: slots_per_save, or the builder's default
SlotsCheckpoint ==
    IF args.slots_per_save = NoSlot THEN DefaultSlotsCheckpoint
    ELSE args.slots_per_save

\* let slots_chunk = min(unprocessed_slots, slots_checkpoint)
SlotsChunk(unprocessed_slots, slots_checkpoint) ==
    Min(unprocessed_slots, slots_checkpoint)

SlotsInCurrentThread_NoRemainder(i, num_threads, slots_per_thread, remaining_slots) ==
    slots_per_thread

\* slots of worker i (0-based): the last worker absorbs the remainder
SlotsInCurrentThread(i, num_threads, slots_per_thread, remaining_slots) ==
    IF i = num_threads - 1 THEN slots_per_thread + remaining_slots
    ELSE slots_per_thread

\* thread_initial_slot of worker i (0-based)
ThreadInitialSlot(from_slot, i, slots_per_thread) ==
    from_slot + i * slots_per_thread

\* the JoinHandles _sync_slots spawns for a chunk [from_slot, to_slot),
\* from_slot < to_slot and num_threads_cfg >= 1
SpawnWorkers(from_slot, to_slot, num_threads_cfg) ==
    LET unprocessed_slots == to_slot - from_slot
        nt0 == Min(num_threads_cfg, unprocessed_slots)
        slots_per_thread == unprocessed_slots \div nt0
        remaining_slots == unprocessed_slots % nt0
        num_threads == IF slots_per_thread > 0 THEN nt0 ELSE unprocessed_slots
    IN [k \in 1..num_threads |->
          LET initial == ThreadInitialSlot(from_slot, k - 1, slots_per_thread)
              n == SlotsInCurrentThread(k - 1, num_threads, slots_per_thread,
                                        remaining_slots)
          IN [initial |-> initial, final |-> initial + n,
              next |-> initial, res |-> "running"]]

ChunkFailed_IgnorePanic(workers) ==
    \E k \in DOMAIN workers : workers[k].res = "err"

\* _sync_slots after join_all: errors is non-empty (a worker returned Err,
\* or its JoinHandle reports a panic)
ChunkFailed(workers) ==
    \E k \in DOMAIN workers : workers[k].res \in {"err", "panic"}

\* the errors vector after the first k - 1 handle outputs
RECURSIVE ChunkErrorsFrom(_, _)
ChunkErrorsFrom(workers, k) ==
    IF k \notin DOMAIN workers THEN <<>>
    ELSE (IF workers[k].res \in {"err", "panic"}
            THEN <<[worker |-> k, kind |-> workers[k].res]>> ELSE <<>>)
         \o ChunkErrorsFrom(workers, k + 1)

ChunkErrors_FirstOnly(workers) ==
    IF ChunkErrorsFrom(workers, 1) = <<>> THEN <<>>
    ELSE <<Head(ChunkErrorsFrom(workers, 1))>>

\* _sync_slots after join_all: one entry of errors per handle whose output
\* is an Err of the worker or a JoinError (the worker panicked)
ChunkErrors(workers) == ChunkErrorsFrom(workers, 1)

\* the argument of update_slot: final_chunk_slot - 1 (final_chunk_slot > 0)
CheckpointSlot(final_chunk_slot) == final_chunk_slot - 1

\* the sink's update_sync_state: a field given overwrites, others remain
UpdateSyncState(state, lower, upper, finalized) ==
    [present |-> TRUE,
     last_lower_synced_slot |->
        IF lower = NoSlot THEN state.last_lower_synced_slot ELSE lower,
     last_upper_synced_slot |->
        IF upper = NoSlot THEN state.last_upper_synced_slot ELSE upper,
     last_finalized_block |->
        IF finalized = NoSlot THEN state.last_finalized_block ELSE finalized]

\* the sink's update_slot: updates the cursor of the caller's checkpoint type
UpdateSlot(state, ctype, slot) ==
    CASE ctype = "Upper" -> UpdateSyncState(state, NoSlot, slot, NoSlot)
      [] ctype = "Lower" -> UpdateSyncState(state, slot, NoSlot, NoSlot)
      [] OTHER -> state

IdleSync ==
    [phase |-> "idle", from |-> 0, to |-> 0, current_slot |-> 0,
     unprocessed_slots |-> 0, final_chunk_slot |-> 0, workers |-> <<>>,
     calls |-> [s \in 0..SlotTop |-> 0], written |-> <<>>, error |-> "none",
     errors |-> <<>>]

\* one iteration of run's while loop up to the join_all await
StartChunk(s) ==
    IF s.unprocessed_slots = 0 THEN [s EXCEPT !.phase = "ok", !.workers = <<>>]
    ELSE
      LET slots_chunk == SlotsChunk(s.unprocessed_slots, SlotsCheckpoint)
          final == s.current_slot + slots_chunk
      IN IF final = s.current_slot
           THEN [s EXCEPT !.phase = "ckpt", !.final_chunk_slot = final,
                          !.workers = <<>>]
         ELSE IF args.num_threads = 0
           THEN [s EXCEPT !.phase = "panic", !.final_chunk_slot = final,
                          !.workers = <<>>]
         ELSE [s EXCEPT !.phase = "workers", !.final_chunk_slot = final,
                        !.workers = SpawnWorkers(s.current_slot, final,
                                                 args.num_threads)]

RunBegin_NoOrderCheck(from_slot, to_slot) ==
    LET s == [IdleSync EXCEPT !.from = from_slot, !.to = to_slot,
                              !.current_slot = from_slot]
    IN IF from_slot >= to_slot THEN [s EXCEPT !.phase = "ok"]
       ELSE StartChunk([s EXCEPT !.unprocessed_slots = to_slot - from_slot])

\* Synchronizer::run(from_slot, to_slot) up to its first await
RunBegin(from_slot, to_slot) ==
    LET s == [IdleSync EXCEPT !.from = from_slot, !.to = to_slot,
                              !.current_slot = from_slot]
    IN IF from_slot = to_slot THEN [s EXCEPT !.phase = "ok"]
       ELSE IF from_slot > to_slot
         THEN [s EXCEPT !.phase = "err", !.error = "start_greater_than_final"]
       ELSE StartChunk([s EXCEPT !.unprocessed_slots = to_slot - from_slot])

\* Indexer::run has not returned: the process, and with it every task, lives
Alive == co.pc \notin {"ok", "err", "panic"}

\* a worker awaits process_slot(current_slot): it succeeds, fails or panics
ProcessSlot(t, k) ==
    /\ Alive
    /\ sync[t].phase = "workers"
    /\ k \in DOMAIN sync[t].workers
    /\ sync[t].workers[k].res = "running"
    /\ \E r \in {"ok", "err", "panic"} :
         LET w == sync[t].workers[k]
             w2 == IF r = "ok"
                     THEN [w EXCEPT !.next = w.next + 1,
                                    !.res = IF w.next + 1 = w.final
                                              THEN "ok" ELSE "running"]
                   ELSE [w EXCEPT !.res = r]
         IN sync' = [sync EXCEPT ![t].workers[k] = w2,
                                 ![t].calls[w.next] = @ + 1]
    /\ UNCHANGED <<args, sync_state, co, chan, senders, rt, hist, sink_log, headers, ps, bid, sp, sched>>

AllJoined_FirstDone(workers) ==
    \E k \in DOMAIN workers : workers[k].res # "running"

\* join_all(handles).await is over: every JoinHandle has its output
AllJoined(workers) ==
    \A k \in DOMAIN workers : workers[k].res # "running"

\* join_all(handles) returns: the chunk fails, or goes on to its checkpoint
JoinAll(t) ==
    /\ Alive
    /\ sync[t].phase = "workers"
    /\ AllJoined(sync[t].workers)
    /\ sync' = [sync EXCEPT ![t] =
                  IF ChunkFailed(sync[t].workers)
                    THEN [@ EXCEPT !.phase = "err",
                                   !.error = "failed_slots_processing",
                                   !.errors = ChunkErrors(sync[t].workers)]
                  ELSE [@ EXCEPT !.phase = "ckpt"]]
    /\ UNCHANGED <<args, sync_state, co, chan, senders, rt, hist, sink_log, headers, ps, bid, sp, sched>>

\* the sweep after a checkpoint value v was accepted by the sink
AfterCheckpoint(t, v) ==
    LET s == sync[t]
        slots_chunk == s.final_chunk_slot - s.current_slot
        wr == IF CheckpointTypeOf(t) = "Disabled" THEN s.written
              ELSE Append(s.written, v)
    IN StartChunk([s EXCEPT !.written = wr,
                            !.current_slot = s.current_slot + slots_chunk,
                            !.unprocessed_slots = s.unprocessed_slots - slots_chunk])

\* update_slot(final_chunk_slot - 1) succeeds; the loop goes to the next chunk
Checkpoint(t) ==
    /\ Alive
    /\ sync[t].phase = "ckpt"
    /\ sync[t].final_chunk_slot > 0
    /\ sync[t].final_chunk_slot = sync[t].current_slot
          => Len(sync[t].written) < MaxWrites
    /\ LET v == CheckpointSlot(sync[t].final_chunk_slot)
       IN /\ sync_state' = UpdateSlot(sync_state, CheckpointTypeOf(t), v)
          /\ sync' = [sync EXCEPT ![t] = AfterCheckpoint(t, v)]
    /\ UNCHANGED <<args, co, chan, senders, rt, hist, sink_log, headers, ps, bid, sp, sched>>

\* final_chunk_slot - 1 with final_chunk_slot = 0: the u32 subtraction
\* panics (overflow checks on) or wraps to u32::MAX (overflow checks off)
CheckpointUnderflow(t) ==
    /\ Alive
    /\ sync[t].phase = "ckpt"
    /\ sync[t].final_chunk_slot = 0
    /\ \/ /\ sync' = [sync EXCEPT ![t].phase = "panic"]
          /\ UNCHANGED sync_state
       \/ /\ Len(sync[t].written) < MaxWrites
          /\ sync_state' = UpdateSlot(sync_state, CheckpointTypeOf(t), U32Max)
          /\ sync' = [sync EXCEPT ![t] = AfterCheckpoint(t, U32Max)]
    /\ UNCHANGED <<args, co, chan, senders, rt, hist, sink_log, headers, ps, bid, sp, sched>>

CheckpointFail_GoesOn(t) ==
    /\ Alive
    /\ sync[t].phase = "ckpt"
    /\ sync[t].final_chunk_slot > sync[t].current_slot
    /\ sync' = [sync EXCEPT ![t] =
                  StartChunk([@ EXCEPT
                     !.error = "checkpoint",
                     !.current_slot = sync[t].final_chunk_slot,
                     !.unprocessed_slots =
                        @ - (sync[t].final_chunk_slot - sync[t].current_slot)])]
    /\ UNCHANGED <<args, sync_state, co, chan, senders, rt, hist, sink_log, headers, ps, bid, sp, sched>>

\* update_slot keeps failing until retry_notify gives up: run returns Err
CheckpointFail(t) ==
    /\ Alive
    /\ sync[t].phase = "ckpt"
    /\ sync' = [sync EXCEPT ![t].phase = "err", ![t].error = "checkpoint"]
    /\ UNCHANGED <<args, sync_state, co, chan, senders, rt, hist, sink_log, headers, ps, bid, sp, sched>>

SyncStep ==
    \E t \in Tasks :
        \/ \E k \in 1..(MaxSlot + 1) : ProcessSlot(t, k)
        \/ JoinAll(t)
        \/ Checkpoint(t)
        \/ CheckpointUnderflow(t)
        \/ CheckpointFail(t)

(* ----------------------- SlotsProcessor::process_slot ------------------ *)
\* let mut delay = Duration::from_secs(5), in seconds
InitialDelay == 5
\* let max_delay = Duration::from_secs(600), in seconds
MaxDelay == 600

\* the steps of process_slot that call the network
Steps == {"beacon", "execution", "validator", "index"}

SkipsSlot_Never(slot) == FALSE

\* if slot == 0 { return Ok(()) }
SkipsSlot(slot) == slot = 0

NextDelay_NoCap(delay) == delay * 2

\* delay *= 2; if delay > max_delay { delay = max_delay }
NextDelay(delay) == IF delay * 2 > MaxDelay THEN MaxDelay ELSE delay * 2

\* process_slot's locals, the answers its three nodes hold for the slot, and
\* what it has done: network calls made per step, the sleeps of the retry
\* loop in progress
IdlePs ==
    [pc |-> "off", slot |-> 0, beacon |-> "none", execution |-> "none",
     validator |-> "none", retries |-> 0, delay |-> InitialDelay,
     attempts |-> [s \in Steps |-> 0], waits |-> <<>>, error |-> "none"]

\* let mut retries = 0; let mut delay = 5 s: a retry loop begins
EnterStep(p, step) ==
    [p EXCEPT !.pc = step, !.retries = 0, !.delay = InitialDelay, !.waits = <<>>]

\* the call of the step in progress was made
Attempted(p) == [p EXCEPT !.attempts[p.pc] = @ + 1]

\* a failed attempt with retries left: retries += 1; sleep(delay); the delay
\* doubles up to max_delay
Retried(p) ==
    [Attempted(p) EXCEPT !.retries = @ + 1,
                         !.waits = Append(@, p.delay),
                         !.delay = NextDelay(p.delay)]

\* process_slot(slot) up to its first network call
PsBegin ==
    /\ ps.pc = "start"
    /\ ps' = IF SkipsSlot(ps.slot) THEN [ps EXCEPT !.pc = "ok"]
             ELSE EnterStep(ps, "beacon")
    /\ UNCHANGED <<args, sync_state, co, chan, senders, rt, hist, sync, sink_log, headers, bid, sp, sched>>

\* get_block(Slot(slot)) answers: None and a block without execution payload
\* return Ok, a block with one goes on to the execution block
PsBeaconBlock ==
    /\ ps.pc = "beacon"
    /\ ps' = IF ps.beacon = "payload" THEN EnterStep(Attempted(ps), "execution")
             ELSE [Attempted(ps) EXCEPT !.pc = "ok"]
    /\ UNCHANGED <<args, sync_state, co, chan, senders, rt, hist, sync, sink_log, headers, bid, sp, sched>>

\* get_block_with_txs answers: None panics in unwrap, a block without
\* transactions returns Ok, one with transactions goes on to the validator
PsExecutionBlock ==
    /\ ps.pc = "execution"
    /\ ps' = CASE ps.execution = "none" -> [Attempted(ps) EXCEPT !.pc = "panic"]
               [] ps.execution = "empty" -> [Attempted(ps) EXCEPT !.pc = "ok"]
               [] OTHER -> EnterStep(Attempted(ps), "validator")
    /\ UNCHANGED <<args, sync_state, co, chan, senders, rt, hist, sync, sink_log, headers, bid, sp, sched>>

\* the versioned-hash mapping or a Transaction::try_from of a block with
\* transactions fails: `?` returns the error
PsEntityError ==
    /\ ps.pc = "execution"
    /\ ps.execution = "txs"
    /\ ps' = [Attempted(ps) EXCEPT !.pc = "err", !.error = "entity"]
    /\ UNCHANGED <<args, sync_state, co, chan, senders, rt, hist, sync, sink_log, headers, bid, sp, sched>>

\* Err(_) if retries < max_retries, in the beacon, execution or index loop
PsRetry ==
    /\ ps.pc \in {"beacon", "execution", "index"}
    /\ ps.retries < MaxStepRetries
    /\ ps' = Retried(ps)
    /\ UNCHANGED <<args, sync_state, co, chan, senders, rt, hist, sync, sink_log, headers, bid, sp, sched>>

\* Err(e) with the retries used up: process_slot returns the error
PsGiveUp ==
    /\ ps.pc \in {"beacon", "execution", "index"}
    /\ ps.retries >= MaxStepRetries
    /\ ps' = [Attempted(ps) EXCEPT !.pc = "err", !.error = "network"]
    /\ UNCHANGED <<args, sync_state, co, chan, senders, rt, hist, sync, sink_log, headers, bid, sp, sched>>

\* get_head_validator answers Some(container); Block::try_from and the blob
\* entities succeed: on to the sink
PsValidator ==
    /\ ps.pc = "validator"
    /\ ps.validator = "some"
    /\ ps' = EnterStep(Attempted(ps), "index")
    /\ UNCHANGED <<args, sync_state, co, chan, senders, rt, hist, sync, sink_log, headers, bid, sp, sched>>

\* get_head_validator answers Some, but Block::try_from fails or a blob's
\* sidecar is not found: `?` returns the error
PsBlockEntityError ==
    /\ ps.pc = "validator"
    /\ ps.validator = "some"
    /\ ps' = [Attempted(ps) EXCEPT !.pc = "err", !.error = "entity"]
    /\ UNCHANGED <<args, sync_state, co, chan, senders, rt, hist, sync, sink_log, headers, bid, sp, sched>>

\* get_head_validator answers None with retries left
PsValidatorRetry ==
    /\ ps.pc = "validator"
    /\ ps.validator = "none"
    /\ ps.retries < MaxStepRetries
    /\ ps' = Retried(ps)
    /\ UNCHANGED <<args, sync_state, co, chan, senders, rt, hist, sync, sink_log, headers, bid, sp, sched>>

\* get_head_validator answers None with the retries used up: CustomError
PsValidatorGiveUp ==
    /\ ps.pc = "validator"
    /\ ps.validator = "none"
    /\ ps.retries >= MaxStepRetries
    /\ ps' = [Attempted(ps) EXCEPT !.pc = "err", !.error = "no_validator"]
    /\ UNCHANGED <<args, sync_state, co, chan, senders, rt, hist, sync, sink_log, headers, bid, sp, sched>>

\* get_head_validator(..).await? fails: the error is returned at once
PsValidatorError ==
    /\ ps.pc = "validator"
    /\ ps' = [Attempted(ps) EXCEPT !.pc = "err", !.error = "network"]
    /\ UNCHANGED <<args, sync_state, co, chan, senders, rt, hist, sync, sink_log, headers, bid, sp, sched>>

\* blobscan_client.index(block, transactions, blobs) succeeds
PsIndex ==
    /\ ps.pc = "index"
    /\ ps' = [Attempted(ps) EXCEPT !.pc = "ok"]
    /\ UNCHANGED <<args, sync_state, co, chan, senders, rt, hist, sync, sink_log, headers, bid, sp, sched>>

PsStep ==
    \/ PsBegin \/ PsBeaconBlock \/ PsExecutionBlock \/ PsEntityError
    \/ PsRetry \/ PsGiveUp
    \/ PsValidator \/ PsBlockEntityError \/ PsValidatorRetry
    \/ PsValidatorGiveUp \/ PsValidatorError \/ PsIndex

(* ------------------- a Synchronizer driven on its own ------------------ *)
NoState ==
    [present |-> FALSE, last_lower_synced_slot |-> NoSlot,
     last_upper_synced_slot |-> NoSlot, last_finalized_block |-> NoSlot]

ArgsSet ==
    [start_block_id : {NoBlockId}, end_block_id : {NoBlockId},
     dencun_fork_slot : {0},
     disable_sync_historical : {FALSE},
     disable_sync_checkpoint_save : BOOLEAN,
     slots_per_save : {NoSlot} \cup (0..MaxChunk),
     num_threads : 0..MaxThreads]

IdleReorg ==
    [slot |-> 0, old_head_block |-> 0, target_depth |-> 0, current_depth |-> 1,
     current_reorged_block |-> 0, reorged_slots |-> <<>>,
     walking |-> FALSE, failure |-> "none"]

IdleCo ==
    [pc |-> "off", retries |-> 0, delay |-> InitialDelay,
     total_tasks |-> 0, completed_tasks |-> 0,
     sync_state |-> NoState,
     current_lower_block_id |-> NoBlockId, current_upper_block_id |-> NoBlockId]

IdleRt ==
    [pc |-> "off", is_initial_sync_to_head |-> TRUE, start_block_id |-> NoBlockId,
     retries |-> 0, events |-> 0, heads |-> <<>>, calls |-> <<>>,
     reorg_events |-> 0, reorg |-> IdleReorg, error |-> "none"]

IdleHist ==
    [pc |-> "off", retries |-> 0, start_block_id |-> NoBlockId,
     end_block_id |-> NoBlockId]

SyncInit ==
    /\ args \in ArgsSet
    /\ sync_state = NoState
    /\ co = IdleCo
    /\ chan = <<>>
    /\ senders = {}
    /\ rt = IdleRt
    /\ hist = IdleHist
    /\ sync = [t \in Tasks |-> IdleSync]
    /\ sink_log = <<>>
    /\ headers = [h \in {1, 2} |-> [found |-> FALSE, slot |-> 0, parent_root |-> 0]]
    /\ ps = IdlePs
    /\ bid = IdleBid
    /\ sp = IdleSp
    /\ sched = IdleSched

\* a caller invokes run(from_slot, to_slot) on its Synchronizer
UnitRun ==
    /\ \A t \in Tasks : sync[t].phase = "idle"
    /\ \E t \in Tasks, from_slot \in 0..SlotTop, to_slot \in 0..SlotTop :
         sync' = [sync EXCEPT ![t] = RunBegin(from_slot, to_slot)]
    /\ UNCHANGED <<args, sync_state, co, chan, senders, rt, hist, sink_log, headers, ps, bid, sp, sched>>

SyncNext == UnitRun \/ SyncStep

SpecSync == SyncInit /\ [][SyncNext]_vars

(* ------------------------------- Indexer ------------------------------- *)
\* block roots known to the model, and execution block numbers
Hashes == {1, 2}
BlockNumbers == {0, 1}

\* Indexer::run: the lower cursor (a u32 subtraction 0 - 1 that wraps gives
\* u32::MAX)
CurrentLowerBlockId(start_block_id, state) ==
    IF start_block_id # NoBlockId THEN start_block_id
    ELSE IF ~state.present THEN BlockIdHead
    ELSE IF state.last_lower_synced_slot # NoSlot
      THEN BlockIdSlot(IF state.last_lower_synced_slot > 0
                         THEN state.last_lower_synced_slot - 1 ELSE 0)
    ELSE IF state.last_upper_synced_slot # NoSlot
      THEN BlockIdSlot(IF state.last_upper_synced_slot > 0
                         THEN state.last_upper_synced_slot - 1 ELSE U32Max)
    ELSE BlockIdHead

\* the subtraction of CurrentLowerBlockId overflows
LowerCursorUnderflows(start_block_id, state) ==
    /\ start_block_id = NoBlockId
    /\ state.present
    /\ state.last_lower_synced_slot = NoSlot
    /\ state.last_upper_synced_slot = 0

CurrentUpperBlockId_NoPlusOne(start_block_id, state) ==
    IF start_block_id # NoBlockId THEN start_block_id
    ELSE IF ~state.present THEN BlockIdHead
    ELSE IF state.last_upper_synced_slot # NoSlot
      THEN BlockIdSlot(state.last_upper_synced_slot)
    ELSE IF state.last_lower_synced_slot # NoSlot
      THEN BlockIdSlot(state.last_lower_synced_slot + 1)
    ELSE BlockIdSlot(1)

\* Indexer::run: the upper cursor
CurrentUpperBlockId(start_block_id, state) ==
    IF start_block_id # NoBlockId THEN start_block_id
    ELSE IF ~state.present THEN BlockIdHead
    ELSE IF state.last_upper_synced_slot # NoSlot
      THEN BlockIdSlot(state.last_upper_synced_slot + 1)
    ELSE IF state.last_lower_synced_slot # NoSlot
      THEN BlockIdSlot(state.last_lower_synced_slot + 1)
    ELSE BlockIdSlot(1)

HistoricalSyncCompleted_AtFork(current_lower_block_id, dencun_fork_slot) ==
    /\ current_lower_block_id.tag = "Slot"
    /\ current_lower_block_id.slot <= dencun_fork_slot

\* matches!(current_lower_block_id, BlockId::Slot(slot) if slot < fork)
HistoricalSyncCompleted(current_lower_block_id, dencun_fork_slot) ==
    /\ current_lower_block_id.tag = "Slot"
    /\ current_lower_block_id.slot < dencun_fork_slot

SpawnsRealtime == args.end_block_id = NoBlockId

SpawnsHistorical(current_lower_block_id) ==
    /\ ~args.disable_sync_historical
    /\ ~HistoricalSyncCompleted(current_lower_block_id, args.dencun_fork_slot)

\* the slots a BlockId may resolve to when a Synchronizer is run on it
ResolvedSlots(block_id) ==
    IF block_id.tag = "Slot" THEN {block_id.slot} ELSE Slots

\* tx.send(message).await on the channel of capacity 32
Send(message) == Append(chan, message)

\* get_sync_state fails and is retried after a sleep
GetSyncStateRetry ==
    /\ co.pc = "start"
    /\ co.retries < MaxStreamRetries
    /\ co' = [co EXCEPT !.retries = @ + 1, !.delay = NextDelay(@)]
    /\ UNCHANGED <<args, sync_state, chan, senders, rt, hist, sync, sink_log, headers, ps, bid, sp, sched>>

\* get_sync_state fails with the retries used up: run returns the error
GetSyncStateGiveUp ==
    /\ co.pc = "start"
    /\ co.retries >= MaxStreamRetries
    /\ co' = [co EXCEPT !.pc = "err"]
    /\ UNCHANGED <<args, sync_state, chan, senders, rt, hist, sync, sink_log, headers, ps, bid, sp, sched>>

\* BlockId::Slot(slot - 1) with last_upper_synced_slot = 0 panics when the
\* build checks overflow
StartPanic ==
    /\ co.pc = "start"
    /\ LowerCursorUnderflows(args.start_block_id, sync_state)
    /\ co' = [co EXCEPT !.pc = "panic"]
    /\ UNCHANGED <<args, sync_state, chan, senders, rt, hist, sync, sink_log, headers, ps, bid, sp, sched>>

\* get_sync_state succeeds: run derives the cursors, spawns the tasks and
\* goes on to receive from the completion channel
Start ==
    /\ co.pc = "start"
    /\ LET lower == CurrentLowerBlockId(args.start_block_id, sync_state)
           upper == CurrentUpperBlockId(args.start_block_id, sync_state)
           realtime == SpawnsRealtime
           historical == SpawnsHistorical(lower)
           end_block_id == IF args.end_block_id = NoBlockId
                             THEN BlockIdSlot(args.dencun_fork_slot)
                           ELSE args.end_block_id
       IN /\ co' = [co EXCEPT !.pc = "recv",
                       !.retries = 0,
                       !.delay = InitialDelay,
                       !.sync_state = sync_state,
                       !.current_lower_block_id = lower,
                       !.current_upper_block_id = upper,
                       !.total_tasks = (IF realtime THEN 1 ELSE 0)
                                       + (IF historical THEN 1 ELSE 0)]
          /\ rt' = IF realtime
                     THEN [rt EXCEPT !.pc = "spawned", !.start_block_id = upper]
                   ELSE rt
          /\ hist' = IF historical
                       THEN [hist EXCEPT !.pc = "loop", !.start_block_id = lower,
                                         !.end_block_id = end_block_id]
                     ELSE hist
          /\ senders' = {IF realtime THEN "rt" ELSE "tx",
                         IF historical THEN "hist" ELSE "tx1"}
    /\ UNCHANGED <<args, sync_state, chan, sync, sink_log, headers, ps, bid, sp, sched>>

\* rx.recv() yields Done
RecvDone ==
    /\ co.pc = "recv"
    /\ chan # <<>>
    /\ chan[1] = "Done"
    /\ chan' = Tail(chan)
    /\ co' = [co EXCEPT !.completed_tasks = @ + 1,
                        !.pc = IF co.completed_tasks + 1 = co.total_tasks
                                 THEN "ok" ELSE "recv"]
    /\ senders' = IF co.completed_tasks + 1 = co.total_tasks
                    THEN senders \ {"tx", "tx1"} ELSE senders
    /\ UNCHANGED <<args, sync_state, rt, hist, sync, sink_log, headers, ps, bid, sp, sched>>

\* rx.recv() yields Error: run returns it
RecvError ==
    /\ co.pc = "recv"
    /\ chan # <<>>
    /\ chan[1] = "Error"
    /\ chan' = Tail(chan)
    /\ co' = [co EXCEPT !.pc = "err"]
    /\ senders' = senders \ {"tx", "tx1"}
    /\ UNCHANGED <<args, sync_state, rt, hist, sync, sink_log, headers, ps, bid, sp, sched>>

\* rx.recv() yields None (every Sender dropped): the loop ends, run returns Ok
RecvClosed ==
    /\ co.pc = "recv"
    /\ chan = <<>>
    /\ senders = {}
    /\ co' = [co EXCEPT !.pc = "ok"]
    /\ UNCHANGED <<args, sync_state, chan, senders, rt, hist, sync, sink_log, headers, ps, bid, sp, sched>>

(* --------------------------- historical task --------------------------- *)
\* the task ends having sent message (no message: "None")
HistEnds(pc, message) ==
    /\ hist' = [hist EXCEPT !.pc = pc]
    /\ chan' = IF message = "None" THEN chan ELSE Send(message)
    /\ senders' = senders \ {"hist"}

\* while retries < max_retries: synchronizer.run(&start_block_id, &end_block_id)
HistRun ==
    /\ Alive
    /\ hist.pc = "loop"
    /\ \E from_slot \in ResolvedSlots(hist.start_block_id),
          to_slot \in ResolvedSlots(hist.end_block_id) :
         sync' = [sync EXCEPT !["hist"] = RunBegin(from_slot, to_slot)]
    /\ hist' = [hist EXCEPT !.pc = "run"]
    /\ UNCHANGED <<args, sync_state, co, chan, senders, rt, sink_log, headers, ps, bid, sp, sched>>

\* run returned Ok: the task sends Done and leaves the loop
HistDone ==
    /\ Alive
    /\ hist.pc = "run"
    /\ sync["hist"].phase = "ok"
    /\ HistEnds("done", "Done")
    /\ UNCHANGED <<args, sync_state, co, rt, sync, sink_log, headers, ps, bid, sp, sched>>

\* run returned Err with retries left: sleep, then run again
HistRetry ==
    /\ Alive
    /\ hist.pc = "run"
    /\ sync["hist"].phase = "err"
    /\ hist.retries + 1 < MaxRetries
    /\ hist' = [hist EXCEPT !.pc = "loop", !.retries = @ + 1]
    /\ UNCHANGED <<args, sync_state, co, chan, senders, rt, sync, sink_log, headers, ps, bid, sp, sched>>

\* run returned Err for the last time: the task sends Error
HistGiveUp ==
    /\ Alive
    /\ hist.pc = "run"
    /\ sync["hist"].phase = "err"
    /\ hist.retries + 1 >= MaxRetries
    /\ HistEnds("error", "Error")
    /\ UNCHANGED <<args, sync_state, co, rt, sync, sink_log, headers, ps, bid, sp, sched>>

\* run panicked: the task's future is dropped with its Sender
HistPanic ==
    /\ Alive
    /\ hist.pc = "run"
    /\ sync["hist"].phase = "panic"
    /\ HistEnds("panic", "None")
    /\ UNCHANGED <<args, sync_state, co, rt, sync, sink_log, headers, ps, bid, sp, sched>>

(* ---------------------------- realtime task ---------------------------- *)
\* the task ends having sent message (no message: "None"); its locals die
RtEnds(r, message) ==
    /\ rt' = [r EXCEPT !.pc = IF message = "Done" THEN "done"
                              ELSE IF message = "Error" THEN "error"
                              ELSE "panic",
                       !.reorg = IdleReorg]
    /\ chan' = IF message = "None" THEN chan ELSE Send(message)
    /\ senders' = senders \ {"rt"}

AwaitsEvent_WhileHandling == rt.pc \in {"idle", "head"}

\* the task is at event_source.next().await: no handler is in progress
AwaitsEvent == rt.pc = "idle"

\* subscribe_to_events succeeds
RtSubscribe ==
    /\ Alive
    /\ rt.pc = "spawned"
    /\ rt' = [rt EXCEPT !.pc = "idle"]
    /\ UNCHANGED <<args, sync_state, co, chan, senders, hist, sync, sink_log, headers, ps, bid, sp, sched>>

\* subscribe_to_events fails: BeaconEventsSubscriptionError
RtSubscribeError ==
    /\ Alive
    /\ rt.pc = "spawned"
    /\ RtEnds(rt, "Error")
    /\ UNCHANGED <<args, sync_state, co, hist, sync, sink_log, headers, ps, bid, sp, sched>>

\* Ok(Event::Open)
RtOpen ==
    /\ Alive
    /\ AwaitsEvent
    /\ UNCHANGED vars

\* the head handler's initial_block_id; heads are the slots of the head
\* events handled before this one
HeadInitialBlockId(is_initial_sync_to_head, start_block_id, heads, slot) ==
    IF is_initial_sync_to_head THEN start_block_id
    ELSE BlockIdSlot(slot)

HeadFinalBlockId_NoPlusOne(slot) == BlockIdSlot(slot)

\* the head handler's final block id: BlockId::Slot(head_block_data.slot + 1)
HeadFinalBlockId(slot) == BlockIdSlot(slot + 1)

\* a head event: synchronizer.run(initial_block_id, Slot(slot + 1)) begins
RtHead ==
    /\ Alive
    /\ AwaitsEvent
    /\ rt.events < MaxEvents
    /\ \E slot \in Slots :
         LET initial_block_id ==
                 HeadInitialBlockId(rt.is_initial_sync_to_head,
                                    rt.start_block_id, rt.heads, slot)
             final_block_id == HeadFinalBlockId(slot)
         IN \E from_slot \in ResolvedSlots(initial_block_id),
               to_slot \in ResolvedSlots(final_block_id) :
              /\ sync' = [sync EXCEPT !["rt"] = RunBegin(from_slot, to_slot)]
              /\ rt' = [rt EXCEPT !.pc = "head",
                           !.is_initial_sync_to_head = FALSE,
                           !.events = @ + 1,
                           !.heads = Append(@, slot),
                           !.calls = Append(@, [from |-> from_slot,
                                                to |-> to_slot])]
    /\ UNCHANGED <<args, sync_state, co, chan, senders, hist, sink_log, headers, ps, bid, sp, sched>>

\* synchronizer.run returned Ok: back to event_source.next()
RtHeadOk ==
    /\ Alive
    /\ rt.pc = "head"
    /\ sync["rt"].phase = "ok"
    /\ rt' = [rt EXCEPT !.pc = "idle"]
    /\ UNCHANGED <<args, sync_state, co, chan, senders, hist, sync, sink_log, headers, ps, bid, sp, sched>>

RtHeadError_GoesOn ==
    /\ Alive
    /\ rt.pc = "head"
    /\ sync["rt"].phase = "err"
    /\ rt' = [rt EXCEPT !.pc = "idle"]
    /\ UNCHANGED <<args, sync_state, co, chan, senders, hist, sync, sink_log,
                   headers, ps, bid, sp, sched>>

\* synchronizer.run returned Err: BeaconEventProcessingError
RtHeadError ==
    /\ Alive
    /\ rt.pc = "head"
    /\ sync["rt"].phase = "err"
    /\ RtEnds(rt, "Error")
    /\ UNCHANGED <<args, sync_state, co, hist, sync, sink_log, headers, ps, bid, sp, sched>>

\* synchronizer.run panicked: the task's future is dropped with its Sender
RtHeadPanic ==
    /\ Alive
    /\ rt.pc = "head"
    /\ sync["rt"].phase = "panic"
    /\ RtEnds(rt, "None")
    /\ UNCHANGED <<args, sync_state, co, hist, sync, sink_log, headers, ps, bid, sp, sched>>

\* a chain_reorg event: the walk starts at old_head_block
RtChainReorg ==
    /\ Alive
    /\ AwaitsEvent
    /\ rt.events < MaxEvents
    /\ \E slot \in {0, MaxSlot}, old_head_block \in Hashes, depth \in 0..MaxDepth :
         rt' = [rt EXCEPT !.pc = "reorg",
                   !.events = @ + 1,
                   !.reorg_events = @ + 1,
                   !.reorg = [IdleReorg EXCEPT
                                !.slot = slot,
                                !.old_head_block = old_head_block,
                                !.target_depth = depth,
                                !.current_reorged_block = old_head_block,
                                !.walking = TRUE]]
    /\ UNCHANGED <<args, sync_state, co, chan, senders, hist, sync, sink_log, headers, ps, bid, sp, sched>>

WalkContinues_OneMore(current_depth, target_depth) ==
    current_depth <= target_depth + 1

\* for current_depth in 1..=target_depth
WalkContinues(current_depth, target_depth) == current_depth <= target_depth

NextReorgedBlock_Stay(current_reorged_block, header) == current_reorged_block

\* current_reorged_block = reorged_block_head.header.message.parent_root
NextReorgedBlock(current_reorged_block, header) == header.parent_root

InWalk ==
    /\ Alive
    /\ rt.pc = "reorg"
    /\ rt.reorg.walking
    /\ WalkContinues(rt.reorg.current_depth, rt.reorg.target_depth)

\* get_block_header(Hash(current_reorged_block)) yields Some(header)
ReorgHeaderFound ==
    /\ InWalk
    /\ headers[rt.reorg.current_reorged_block].found
    /\ LET header == headers[rt.reorg.current_reorged_block]
       IN rt' = [rt EXCEPT
                  !.reorg.reorged_slots = Append(@, header.slot),
                  !.reorg.current_reorged_block =
                      NextReorgedBlock(rt.reorg.current_reorged_block, header),
                  !.reorg.current_depth = @ + 1]
    /\ UNCHANGED <<args, sync_state, co, chan, senders, hist, sync, sink_log, headers, ps, bid, sp, sched>>

\* get_block_header yields None: warn and break
ReorgHeaderMissing ==
    /\ InWalk
    /\ ~headers[rt.reorg.current_reorged_block].found
    /\ rt' = [rt EXCEPT !.reorg.walking = FALSE]
    /\ UNCHANGED <<args, sync_state, co, chan, senders, hist, sync, sink_log, headers, ps, bid, sp, sched>>

\* get_block_header fails: BlockRetrievalError
ReorgHeaderError ==
    /\ InWalk
    /\ rt' = [rt EXCEPT !.pc = "reorg_failed", !.reorg.failure = "lookup",
                        !.reorg.walking = FALSE]
    /\ UNCHANGED <<args, sync_state, co, chan, senders, hist, sync, sink_log, headers, ps, bid, sp, sched>>

\* the for loop is over: its range is used up, or it was left by break
WalkOver ==
    /\ Alive
    /\ rt.pc = "reorg"
    /\ \/ ~rt.reorg.walking
       \/ ~WalkContinues(rt.reorg.current_depth, rt.reorg.target_depth)

\* handle_reorged_slots(&reorged_slots) succeeds; the handler's locals die
ReorgSubmit ==
    /\ WalkOver
    /\ sink_log' = Append(sink_log, rt.reorg.reorged_slots)
    /\ rt' = [rt EXCEPT !.pc = "idle", !.reorg = IdleReorg]
    /\ UNCHANGED <<args, sync_state, co, chan, senders, hist, sync, headers, ps, bid, sp, sched>>

\* handle_reorged_slots fails: ReorgedHandlingFailure
ReorgSubmitError ==
    /\ WalkOver
    /\ rt' = [rt EXCEPT !.pc = "reorg_failed", !.reorg.failure = "submit",
                        !.reorg.walking = FALSE]
    /\ UNCHANGED <<args, sync_state, co, chan, senders, hist, sync, sink_log, headers, ps, bid, sp, sched>>

\* the handler failed: update_sync_state(last_upper_synced_slot = slot - 1)
\* takes effect (0 - 1 wrapping to u32::MAX), then the task returns the error
ReorgReset ==
    /\ Alive
    /\ rt.pc = "reorg_failed"
    /\ sync_state' = UpdateSyncState(sync_state, NoSlot,
                        IF rt.reorg.slot = 0 THEN U32Max ELSE rt.reorg.slot - 1,
                        NoSlot)
    /\ RtEnds(rt, "Error")
    /\ UNCHANGED <<args, co, hist, sync, sink_log, headers, ps, bid, sp, sched>>

\* the handler failed and the update fails too: its outcome is ignored
ReorgResetIgnored ==
    /\ Alive
    /\ rt.pc = "reorg_failed"
    /\ RtEnds(rt, "Error")
    /\ UNCHANGED <<args, sync_state, co, hist, sync, sink_log, headers, ps, bid, sp, sched>>

\* the handler failed with slot = 0 and the build checks overflow: slot - 1
\* panics
ReorgResetPanic ==
    /\ Alive
    /\ rt.pc = "reorg_failed"
    /\ rt.reorg.slot = 0
    /\ RtEnds(rt, "None")
    /\ UNCHANGED <<args, sync_state, co, hist, sync, sink_log, headers, ps, bid, sp, sched>>

\* what get_block(Hash(block)) may answer for the finalized block: no
\* block, a block without execution payload, a block with one
FinalizedBlocks ==
    {[kind |-> "missing", block_number |-> NoSlot],
     [kind |-> "no_payload", block_number |-> NoSlot]}
       \cup {[kind |-> "payload", block_number |-> n] : n \in BlockNumbers}

FinalizedSyncState_AlsoUpper(block_number) ==
    [last_lower_synced_slot |-> NoSlot, last_upper_synced_slot |-> block_number,
     last_finalized_block |-> block_number]

\* the BlockchainSyncState the finalized_checkpoint handler sends
FinalizedSyncState(block_number) ==
    [last_lower_synced_slot |-> NoSlot, last_upper_synced_slot |-> NoSlot,
     last_finalized_block |-> block_number]

\* a finalized_checkpoint event whose block has an execution payload:
\* update_sync_state(last_finalized_block = block_number) succeeds
RtFinalized ==
    /\ Alive
    /\ AwaitsEvent
    /\ rt.events < MaxEvents
    /\ \E block \in FinalizedBlocks :
         /\ block.kind = "payload"
         /\ LET state == FinalizedSyncState(block.block_number)
            IN sync_state' = UpdateSyncState(sync_state,
                                state.last_lower_synced_slot,
                                state.last_upper_synced_slot,
                                state.last_finalized_block)
    /\ rt' = [rt EXCEPT !.events = @ + 1]
    /\ UNCHANGED <<args, co, chan, senders, hist, sync, sink_log, headers, ps, bid, sp, sched>>

\* a finalized_checkpoint event whose block is missing or has no execution
\* payload: with_context(..)? returns the error, nothing is sent to the sink
RtFinalizedAbsent ==
    /\ Alive
    /\ AwaitsEvent
    /\ rt.events < MaxEvents
    /\ \E block \in FinalizedBlocks :
         /\ block.kind # "payload"
         /\ RtEnds([rt EXCEPT !.events = @ + 1,
                              !.error = "finalized_" \o block.kind], "Error")
    /\ UNCHANGED <<args, sync_state, co, hist, sync, sink_log, headers, ps, bid, sp, sched>>

\* a finalized_checkpoint event whose data does not parse, whose block
\* cannot be fetched, or whose update_sync_state fails
RtFinalizedError ==
    /\ Alive
    /\ AwaitsEvent
    /\ rt.events < MaxEvents
    /\ RtEnds([rt EXCEPT !.events = @ + 1], "Error")
    /\ UNCHANGED <<args, sync_state, co, hist, sync, sink_log, headers, ps, bid, sp, sched>>

RtUnexpectedEvent_Ignored ==
    /\ Alive
    /\ AwaitsEvent
    /\ rt.events < MaxEvents
    /\ rt' = [rt EXCEPT !.events = @ + 1, !.error = "unexpected_event"]
    /\ UNCHANGED <<args, sync_state, co, chan, senders, hist, sync, sink_log,
                   headers, ps, bid, sp, sched>>

\* an event of any other name: UnexpectedBeaconEvent
RtUnexpectedEvent ==
    /\ Alive
    /\ AwaitsEvent
    /\ rt.events < MaxEvents
    /\ RtEnds([rt EXCEPT !.events = @ + 1, !.error = "unexpected_event"], "Error")
    /\ UNCHANGED <<args, sync_state, co, hist, sync, sink_log, headers, ps, bid, sp, sched>>

\* serde_json::from_str fails on the data of a head or chain_reorg event:
\* the handler's error ends the task (no sync state is written)
RtEventDataError ==
    /\ Alive
    /\ AwaitsEvent
    /\ rt.events < MaxEvents
    /\ RtEnds([rt EXCEPT !.events = @ + 1], "Error")
    /\ UNCHANGED <<args, sync_state, co, hist, sync, sink_log, headers, ps, bid, sp, sched>>

\* Err(_) if retries < max_retries: sleep and go on with the stream
RtStreamRetry ==
    /\ Alive
    /\ AwaitsEvent
    /\ rt.events < MaxEvents
    /\ rt.retries < MaxStreamRetries
    /\ rt' = [rt EXCEPT !.retries = @ + 1, !.events = @ + 1]
    /\ UNCHANGED <<args, sync_state, co, chan, senders, hist, sync, sink_log, headers, ps, bid, sp, sched>>

RtStreamGiveUp_ReportsDone ==
    /\ Alive
    /\ AwaitsEvent
    /\ rt.retries >= MaxStreamRetries
    /\ RtEnds([rt EXCEPT !.error = "stream"], "Done")
    /\ UNCHANGED <<args, sync_state, co, hist, sync, sink_log, headers, ps, bid, sp, sched>>

\* Err(error) with the retries used up: close the source, return the error
RtStreamGiveUp ==
    /\ Alive
    /\ AwaitsEvent
    /\ rt.retries >= MaxStreamRetries
    /\ RtEnds([rt EXCEPT !.error = "stream"], "Error")
    /\ UNCHANGED <<args, sync_state, co, hist, sync, sink_log, headers, ps, bid, sp, sched>>

\* event_source.next() yields None: the task returns Ok
RtStreamEnd ==
    /\ Alive
    /\ AwaitsEvent
    /\ RtEnds(rt, "Done")
    /\ UNCHANGED <<args, sync_state, co, hist, sync, sink_log, headers, ps, bid, sp, sched>>

(* --------------------------- the whole indexer ------------------------- *)
NoHeader == [found |-> FALSE, slot |-> 0, parent_root |-> 0]

\* every header store over the model's block roots
HeaderStores ==
    [Hashes -> {NoHeader} \cup
               [found : {TRUE}, slot : {MaxSlot - 1, MaxSlot}, parent_root : Hashes]]

\* the store of the indexer runs: block 1 at MaxSlot with parent 2, block 2
\* unknown to the node
ChainStores ==
    {h \in HeaderStores :
        /\ h[1] = [found |-> TRUE, slot |-> MaxSlot, parent_root |-> 2]
        /\ h[2] = NoHeader}

SyncState(lower, upper) ==
    [present |-> TRUE, last_lower_synced_slot |-> lower,
     last_upper_synced_slot |-> upper, last_finalized_block |-> NoSlot]

SinkStates ==
    {NoState, SyncState(NoSlot, 1), SyncState(2, 2), SyncState(MaxSlot, NoSlot),
     SyncState(NoSlot, 0)}

\* (slots_per_save, num_threads)
SyncConfigs == {<<NoSlot, 1>>, <<1, MaxThreads>>, <<0, 1>>, <<NoSlot, 0>>}

IndexerArgs ==
    {a \in [start_block_id : {NoBlockId, BlockIdSlot(2)},
            end_block_id : {NoBlockId, BlockIdSlot(1)},
            dencun_fork_slot : {1},
            disable_sync_historical : BOOLEAN,
            disable_sync_checkpoint_save : BOOLEAN,
            slots_per_save : {NoSlot, 0, 1},
            num_threads : {0, 1, MaxThreads}] :
        /\ <<a.slots_per_save, a.num_threads>> \in SyncConfigs
        /\ a.disable_sync_checkpoint_save => a.slots_per_save = NoSlot /\ a.num_threads = 1}

Init ==
    /\ args \in IndexerArgs
    /\ sync_state \in SinkStates
    /\ headers \in ChainStores
    /\ ps = IdlePs
    /\ bid = IdleBid
    /\ sp = IdleSp
    /\ sched = IdleSched
    /\ co = [IdleCo EXCEPT !.pc = "start"]
    /\ chan = <<>>
    /\ senders = {"tx", "tx1"}
    /\ rt = IdleRt
    /\ hist = IdleHist
    /\ sync = [t \in Tasks |-> IdleSync]
    /\ sink_log = <<>>

Next ==
    \/ GetSyncStateRetry \/ GetSyncStateGiveUp \/ StartPanic \/ Start
    \/ RecvDone \/ RecvError \/ RecvClosed
    \/ HistRun \/ HistDone \/ HistRetry \/ HistGiveUp \/ HistPanic
    \/ RtSubscribe \/ RtSubscribeError \/ RtOpen
    \/ RtHead \/ RtHeadOk \/ RtHeadError \/ RtHeadPanic
    \/ RtChainReorg \/ ReorgHeaderFound \/ ReorgHeaderMissing
    \/ ReorgHeaderError \/ ReorgSubmit \/ ReorgSubmitError
    \/ ReorgReset \/ ReorgResetIgnored \/ ReorgResetPanic
    \/ RtFinalized \/ RtFinalizedAbsent \/ RtFinalizedError \/ RtUnexpectedEvent
    \/ RtEventDataError
    \/ RtStreamRetry \/ RtStreamGiveUp \/ RtStreamEnd
    \/ SyncStep

Spec == Init /\ [][Next]_vars

(* ------------------ the chain_reorg handler on its own ----------------- *)
\* the indexer after Start and RtSubscribe, started without arguments on an
\* empty sink with historical sync disabled, over any header store
ReorgInit ==
    /\ args = [start_block_id |-> NoBlockId, end_block_id |-> NoBlockId,
               dencun_fork_slot |-> 1, disable_sync_historical |-> TRUE,
               disable_sync_checkpoint_save |-> FALSE,
               slots_per_save |-> NoSlot, num_threads |-> 1]
    /\ sync_state = NoState
    /\ headers \in HeaderStores
    /\ ps = IdlePs
    /\ bid = IdleBid
    /\ sp = IdleSp
    /\ sched = IdleSched
    /\ co = [IdleCo EXCEPT !.pc = "recv", !.total_tasks = 1,
                           !.current_lower_block_id = BlockIdHead,
                           !.current_upper_block_id = BlockIdHead]
    /\ chan = <<>>
    /\ senders = {"rt", "tx1"}
    /\ rt = [IdleRt EXCEPT !.pc = "idle", !.start_block_id = BlockIdHead]
    /\ hist = IdleHist
    /\ sync = [t \in Tasks |-> IdleSync]
    /\ sink_log = <<>>

ReorgNext ==
    \/ RtChainReorg \/ ReorgHeaderFound \/ ReorgHeaderMissing
    \/ ReorgHeaderError \/ ReorgSubmit \/ ReorgSubmitError
    \/ ReorgReset \/ ReorgResetIgnored \/ ReorgResetPanic
    \/ RecvError

SpecReorg == ReorgInit /\ [][ReorgNext]_vars

(* ----------------- the retry loops driven on their own ----------------- *)
\* a process_slot call about to start, for slot 0 or slot 1 and every
\* combination of answers of the nodes, beside an Indexer::run about to fetch
\* the sync state
SlotInit ==
    /\ args = [start_block_id |-> NoBlockId, end_block_id |-> NoBlockId,
               dencun_fork_slot |-> 1, disable_sync_historical |-> FALSE,
               disable_sync_checkpoint_save |-> FALSE,
               slots_per_save |-> NoSlot, num_threads |-> 1]
    /\ sync_state \in SinkStates
    /\ headers \in ChainStores
    /\ co = [IdleCo EXCEPT !.pc = "start"]
    /\ chan = <<>>
    /\ senders = {"tx", "tx1"}
    /\ rt = IdleRt
    /\ hist = IdleHist
    /\ sync = [t \in Tasks |-> IdleSync]
    /\ sink_log = <<>>
    /\ \E slot \in {0, 1}, beacon \in {"none", "no_payload", "payload"},
          execution \in {"none", "empty", "txs"}, validator \in {"none", "some"} :
         ps = [IdlePs EXCEPT !.pc = "start", !.slot = slot, !.beacon = beacon,
                             !.execution = execution, !.validator = validator]
    /\ bid = IdleBid
    /\ sp = IdleSp
    /\ sched = IdleSched

SlotNext == PsStep \/ GetSyncStateRetry \/ GetSyncStateGiveUp \/ Start

SpecSlot == SlotInit /\ [][SlotNext]_vars

(* ------------------ BlockId rendered and parsed back ------------------- *)
\* the sequences of n elements of S
RECURSIVE SeqsOf(_, _)
SeqsOf(S, n) ==
    IF n = 0 THEN {<<>>}
    ELSE {Append(q, x) : q \in SeqsOf(S, n - 1), x \in S}

\* the hash whose bytes are all b
HashOf(b) == CHOOSE h \in SeqsOf({b}, HashLen) : TRUE

\* the bytes a hash of the model is made of
HashBytes == {0, 1, 10, 16, 171, 255}
SlotValues == {0, 1, 9, 10, 99, 100, 255, 1000, 65535, 2147483646, U32Max}
BlockIds ==
    {BlockIdHead, BlockIdFinalized}
       \cup {BlockIdSlot(n) : n \in SlotValues}
       \cup {BlockIdHash(h) : h \in SeqsOf(HashBytes, HashLen)}

TextChars == {"0", "1", "x", "a", "+", "-"}
Texts ==
    UNION {SeqsOf(TextChars, n) : n \in 0..MaxText}
       \cup {StrHead, StrFinalized, <<"H", "e", "a", "d">>,
             <<"h", "e", "a", "d", "0">>,
             Str0x \o LowerHex(HashOf(171)),
             LowerHex(HashOf(171)),
             LowerHex(HashOf(16)),
             Str0x \o LowerHex(HashOf(16)) \o <<"0">>,
             Str0x \o <<"g">> \o Tail(LowerHex(HashOf(16))),
             U32ToString(U32Max), U32ToString(U32Max \div 10) \o <<"8">>,
             U32ToString(U32Max) \o <<"0">>, <<"+">> \o U32ToString(U32Max)}

\* to_detailed_string applied to a BlockId
Render ==
    /\ bid.pc = "id"
    /\ bid' = [bid EXCEPT !.pc = "text", !.text = ToDetailedString(bid.id)]
    /\ UNCHANGED <<args, sync_state, co, chan, senders, rt, hist, sync,
                   sink_log, headers, ps, sp, sched>>

\* from_str applied to a text
Parse ==
    /\ bid.pc = "text"
    /\ bid' = [bid EXCEPT !.pc = "done", !.parsed = FromStr(bid.text)]
    /\ UNCHANGED <<args, sync_state, co, chan, senders, rt, hist, sync,
                   sink_log, headers, ps, sp, sched>>

\* a BlockId about to be rendered, or a text about to be parsed
BlockIdInit ==
    /\ args = [start_block_id |-> NoBlockId, end_block_id |-> NoBlockId,
               dencun_fork_slot |-> 1, disable_sync_historical |-> FALSE,
               disable_sync_checkpoint_save |-> FALSE,
               slots_per_save |-> NoSlot, num_threads |-> 1]
    /\ sync_state = NoState
    /\ headers \in ChainStores
    /\ co = IdleCo
    /\ chan = <<>>
    /\ senders = {"tx", "tx1"}
    /\ rt = IdleRt
    /\ hist = IdleHist
    /\ sync = [t \in Tasks |-> IdleSync]
    /\ sink_log = <<>>
    /\ ps = IdlePs
    /\ \/ \E id \in BlockIds : bid = [IdleBid EXCEPT !.pc = "id", !.id = id]
       \/ \E s \in Texts : bid = [IdleBid EXCEPT !.pc = "text", !.text = s]
    /\ sp = IdleSp
    /\ sched = IdleSched

BlockIdNext == Render \/ Parse

SpecBlockId == BlockIdInit /\ [][BlockIdNext]_vars

(* --------------------------- claims: Synchronizer ---------------------- *)
\* a process_slot call of the chunk in progress returned Err or panicked
SlotFailed(t) ==
    \E k \in DOMAIN sync[t].workers :
        sync[t].workers[k].res \in {"err", "panic"}

\* C1 (chunk atomicity): from the moment a slot of a chunk has failed, the
\* run writes no checkpoint any more, neither for that chunk nor for a later
\* one: the sink's sync state and the list of values the run has written
\* stay as the last fully successful chunk left them.
C1_ChunkAtomicity ==
    [][\A t \in Tasks :
          SlotFailed(t) => /\ sync_state' = sync_state
                           /\ sync'[t].written = sync[t].written]_vars

\* a run has failed in its second chunk or later, after a checkpoint write
C1_Witness ==
    \E t \in Tasks :
        /\ sync[t].phase = "err"
        /\ SlotFailed(t)
        /\ Len(sync[t].written) >= 1
        /\ sync_state.present

\* C2 (cursor monotonicity within one sweep), as claimed: every value an
\* Upper sweep writes is strictly greater than the value it wrote before,
\* and every value a Lower sweep writes is strictly smaller.
C2_Claimed ==
    [][\A t \in Tasks :
          LET w == sync[t].written
              w2 == sync'[t].written
          IN (Len(w) >= 1 /\ Len(w2) = Len(w) + 1) =>
                /\ CheckpointTypeOf(t) = "Upper" => w2[Len(w2)] > w[Len(w)]
                /\ CheckpointTypeOf(t) = "Lower" => w2[Len(w2)] < w[Len(w)]]_vars

\* the workers of the chunk in progress split it into consecutive pieces
WorkersPartitionChunk(s) ==
    LET n == Len(s.workers)
    IN /\ n >= 1
       /\ s.workers[1].initial = s.current_slot
       /\ s.workers[n].final = s.final_chunk_slot
       /\ \A k \in 1..n : s.workers[k].initial < s.workers[k].final
       /\ \A k \in 1..(n - 1) : s.workers[k].final = s.workers[k + 1].initial
       /\ \A x \in s.current_slot..(s.final_chunk_slot - 1) :
             Cardinality({k \in 1..n : /\ s.workers[k].initial <= x
                                       /\ x < s.workers[k].final}) = 1

\* C3 (range coverage): the workers' sub-ranges of every chunk are pairwise
\* disjoint and cover exactly the chunk; a chunk smaller than num_threads
\* gets one worker per slot; and a run over [from, to) that returns Ok has
\* passed every slot of the range to process_slot exactly once, and no other.
C3_RangeCoverage ==
    \A t \in Tasks :
       LET s == sync[t]
           size == s.final_chunk_slot - s.current_slot
       IN /\ s.phase = "workers" =>
                /\ WorkersPartitionChunk(s)
                /\ Len(s.workers) <= args.num_threads
                /\ size < args.num_threads =>
                     /\ Len(s.workers) = size
                     /\ \A k \in 1..size :
                           s.workers[k].final = s.workers[k].initial + 1
          /\ (s.phase = "ok" /\ s.from < s.to) =>
                \A x \in 0..SlotTop :
                   s.calls[x] = IF s.from <= x /\ x < s.to THEN 1 ELSE 0

\* a run of three slots in one chunk on two workers (the last one takes the
\* remainder) has returned Ok
C3_Witness ==
    \E t \in Tasks :
        /\ sync[t].phase = "ok"
        /\ sync[t].to - sync[t].from = 3
        /\ args.num_threads = 2
        /\ args.slots_per_save = NoSlot

(* ----------------------------- claims: Indexer ------------------------- *)
\* the run started without a start override, with checkpoints enabled, on a
\* sink whose last_upper_synced_slot was U, and the first head event's slot
\* is above U
HappyHead ==
    /\ args.start_block_id = NoBlockId
    /\ ~args.disable_sync_checkpoint_save
    /\ co.sync_state.present
    /\ co.sync_state.last_upper_synced_slot # NoSlot
    /\ Len(rt.heads) >= 1
    /\ rt.heads[1] > co.sync_state.last_upper_synced_slot

\* C4 (happy head): when the sink held last_upper_synced_slot = U at startup
\* and no start override is given, the first head event, of slot S > U, makes
\* the realtime task run its Upper-checkpointing synchronizer on [U+1, S+1),
\* and once that run has returned Ok the sink's last_upper_synced_slot is S.
C4_HappyHead ==
    HappyHead =>
       LET U == co.sync_state.last_upper_synced_slot
           S == rt.heads[1]
       IN /\ CheckpointTypeOf("rt") = "Upper"
          /\ rt.calls[1] = [from |-> U + 1, to |-> S + 1]
          /\ (Len(rt.heads) = 1 /\ rt.pc = "idle" /\ sync["rt"].phase = "ok")
                => sync_state.last_upper_synced_slot = S

\* the first head event, two slots above the sink's cursor, has been handled
C4_Witness ==
    /\ HappyHead
    /\ rt.heads[1] = co.sync_state.last_upper_synced_slot + 2
    /\ Len(rt.heads) = 1
    /\ rt.pc = "idle"
    /\ sync["rt"].phase = "ok"
    /\ sync_state.last_upper_synced_slot = rt.heads[1]

\* C5, as claimed: every head event after the first makes the realtime task
\* run the synchronizer from the previous head event's slot P up to S+1
\* (exclusive), S being the event's own slot.
C5_Claimed ==
    \A i \in 2..Len(rt.heads) :
        rt.calls[i] = [from |-> rt.heads[i - 1], to |-> rt.heads[i] + 1]

\* C6 (dispatch completeness): every head event handled makes exactly one
\* synchronizer call, whose exclusive final slot is the event's slot S plus
\* one; and when that call has returned Ok and its initial slot was at most
\* S, slot S was processed.
C6_DispatchCompleteness ==
    /\ Len(rt.calls) = Len(rt.heads)
    /\ \A i \in 1..Len(rt.heads) : rt.calls[i].to = rt.heads[i] + 1
    /\ (/\ Len(rt.heads) >= 1
        /\ sync["rt"].phase = "ok"
        /\ sync["rt"].from <= rt.heads[Len(rt.heads)])
          => sync["rt"].calls[rt.heads[Len(rt.heads)]] = 1

\* a second head event has been handled and its slot processed
C6_Witness ==
    /\ Len(rt.heads) = 2
    /\ rt.pc = "idle"
    /\ sync["rt"].phase = "ok"
    /\ sync["rt"].calls[rt.heads[2]] = 1

\* C6, as claimed: whenever the call made for a head event of slot S has
\* returned Ok, slot S is among the slots it processed.
C6_Claimed ==
    (Len(rt.heads) >= 1 /\ sync["rt"].phase = "ok")
       => sync["rt"].calls[rt.heads[Len(rt.heads)]] >= 1

\* C7, as claimed: Indexer::run has returned Ok only if every task it
\* spawned has reported Done.
C7_Claimed ==
    co.pc = "ok" =>
       /\ rt.pc \in {"off", "done"}
       /\ hist.pc \in {"off", "done"}

\* C8, as claimed: started with no start override, end = Slot(E) and a sink
\* whose last_lower_synced_slot is L > E, the run spawns the historical task
\* alone, and the coordinator returns an error only if a slot or a
\* checkpoint write has failed.
C8_Claimed ==
    (/\ args.start_block_id = NoBlockId
     /\ args.end_block_id # NoBlockId
     /\ ~args.disable_sync_historical
     /\ co.sync_state.present
     /\ co.sync_state.last_lower_synced_slot > args.end_block_id.slot)
       => /\ rt.pc = "off"
          /\ co.pc # "recv" \/ hist.pc # "off"
          /\ co.pc = "err" =>
                sync["hist"].error \in {"failed_slots_processing", "checkpoint"}

\* C9 (reorg depth cap): the slots the parent-root walk of a chain_reorg
\* event has collected, and hence the list it passes to
\* handle_reorged_slots, are never more than the event's depth.
C9_ReorgDepthCap ==
    [][/\ Len(rt'.reorg.reorged_slots) <= rt'.reorg.target_depth
       /\ sink_log' # sink_log =>
             Len(sink_log'[Len(sink_log')]) <= rt.reorg.target_depth]_vars

\* a walk of the largest depth found a header at every step and its slots
\* reached the sink
C9_Witness ==
    /\ Len(sink_log) >= 1
    /\ Len(sink_log[1]) >= 2
    /\ rt.pc = "idle"

RECURSIVE Chain(_, _)
\* the slots of the headers met by following parent_root from block root h
\* for at most d steps, stopping at the first root the node does not know
Chain(h, d) ==
    IF d = 0 \/ ~headers[h].found THEN <<>>
    ELSE <<headers[h].slot>> \o Chain(headers[h].parent_root, d - 1)

\* C10 (reorg reconciliation): a chain_reorg event whose handler returns Ok
\* has called handle_reorged_slots exactly once, with the slots of the
\* headers found by following parent_root from old_head_block, in traversal
\* order and for at most depth steps; a lookup answering None stops the walk
\* with the slots collected so far and raises no error.
C10_ReorgReconciliation ==
    [][/\ rt'.pc = "idle" => Len(sink_log') = rt'.reorg_events
       /\ sink_log' # sink_log =>
             sink_log' = Append(sink_log, Chain(rt.reorg.old_head_block,
                                                rt.reorg.target_depth))
       /\ (/\ InWalk
           /\ ~headers[rt.reorg.current_reorged_block].found
           /\ rt' # rt
           /\ rt'.pc # "reorg_failed")
             => /\ rt'.pc = "reorg"
                /\ ~rt'.reorg.walking
                /\ rt'.reorg.failure = "none"
                /\ rt'.reorg.reorged_slots = rt.reorg.reorged_slots]_vars

\* one event's slots have reached the sink, and the walk of a second event
\* of depth 2 was stopped by None after one header
C10_Witness ==
    /\ Len(sink_log) = 1
    /\ rt.pc = "reorg"
    /\ ~rt.reorg.walking
    /\ rt.reorg.target_depth = 2
    /\ Len(rt.reorg.reorged_slots) = 1
    /\ rt.reorg.failure = "none"

(* --------------------------- claims: C11 .. C20 ------------------------ *)
\* C11 (start greater than end, Upper): a run(from, to) with from > to of a
\* synchronizer of checkpoint type Upper is in error with the
\* start-greater-than-final error, has called process_slot for no slot and
\* has written no checkpoint; the sink's sync state is untouched.
C11_StartGreaterUpper ==
    \A t \in Tasks :
       (CheckpointTypeOf(t) = "Upper" /\ sync[t].from > sync[t].to) =>
          /\ sync[t].phase = "err"
          /\ sync[t].error = "start_greater_than_final"
          /\ \A x \in 0..SlotTop : sync[t].calls[x] = 0
          /\ sync[t].written = <<>>
          /\ sync_state = NoState

\* the Upper synchronizer was run on (2, 1)
C11_Witness ==
    /\ CheckpointTypeOf("rt") = "Upper"
    /\ sync["rt"].from = 2
    /\ sync["rt"].to = 1
    /\ sync["rt"].phase = "err"

\* process_slot has returned
PsReturned == ps.pc \in {"ok", "err", "panic"}

\* the only error of a skipped slot: a fetch that failed on every attempt
PsFetchExhausted ==
    /\ ps.pc = "err"
    /\ ps.retries = MaxStepRetries
    /\ ps.attempts["validator"] = 0

CursorLeq(a, b) ==
    \/ a = b
    \/ \A x \in ResolvedSlots(a), y \in ResolvedSlots(b) : x <= y

\* C13, as claimed: the lower cursor Indexer::run derives is never above the
\* upper cursor it derives, whatever the sink's sync state and the start
\* override.
C13_Claimed ==
    CursorLeq(co.current_lower_block_id, co.current_upper_block_id)

RECURSIVE Pow2(_)
Pow2(n) == IF n = 0 THEN 1 ELSE 2 * Pow2(n - 1)

\* the i-th wait of a retry loop: 5 s doubled i - 1 times, at most 600 s
ExpectedWait(i) == Min(InitialDelay * Pow2(i - 1), MaxDelay)

\* C14 (retry bound): in the retry loops of process_slot and of
\* Indexer::run's get_sync_state, an operation is retried at most
\* max_retries times (so attempted at most max_retries + 1 times); the waits
\* are 5 s, 10 s, ... doubling and never above 600 s; a failure with the
\* retries used up leaves the loop (with the error), and once a loop has
\* been left, by success or by error, its operation is not attempted again.
C14_RetryBound ==
    [][/\ ps'.retries <= MaxStepRetries
       /\ co'.retries <= MaxStreamRetries
       /\ \A step \in Steps : ps'.attempts[step] <= MaxStepRetries + 1
       /\ Len(ps'.waits) = ps'.retries
       /\ \A i \in 1..Len(ps'.waits) : ps'.waits[i] = ExpectedWait(i)
       /\ co'.delay = ExpectedWait(co'.retries + 1)
       /\ \A step \in Steps :
             (ps.pc # step /\ ps.attempts[step] > 0)
                => ps'.attempts[step] = ps.attempts[step]
       /\ (ps.pc \in Steps /\ ps' # ps /\ ps'.pc = ps.pc)
             => /\ ps.retries < MaxStepRetries
                /\ ps'.retries = ps.retries + 1
       /\ (co.pc = "start" /\ co' # co /\ co'.pc = "start")
             => /\ co.retries < MaxStreamRetries
                /\ co'.retries = co.retries + 1]_vars

\* the beacon block fetch failed on every attempt: process_slot returned the
\* error after max_retries retries, the last wait being the cap
C14_Witness ==
    /\ ps.pc = "err"
    /\ ps.attempts["beacon"] = MaxStepRetries + 1
    /\ ps.attempts["execution"] = 0
    /\ Len(ps.waits) = MaxStepRetries
    /\ ps.waits[Len(ps.waits)] = MaxDelay

C16_BlockIdRoundTrip ==
    bid.pc = "done" =>
       /\ bid.id # NoBlockId => bid.parsed = bid.id
       /\ bid.parsed.tag = "Head" <=> bid.text = StrHead
       /\ bid.parsed.tag = "Finalized" <=> bid.text = StrFinalized
       /\ bid.parsed.tag = "Slot" =>
             /\ bid.text \notin {StrHead, StrFinalized}
             /\ \E i \in 1..Len(bid.text) : IsDecChar(bid.text[i])
             /\ \A i \in 1..Len(bid.text) :
                   IsDecChar(bid.text[i]) \/ (i = 1 /\ bid.text[i] = "+")
       /\ bid.parsed.tag = "Hash" =>
             /\ ~ParseU32(bid.text).ok
             /\ StartsWith0x(bid.text)
             /\ Len(bid.text) = 2 + 2 * HashLen
       /\ bid.parsed.tag \in {"Head", "Finalized", "Slot", "Hash", "Err"}

\* a hash whose hex digits are all decimal digits was rendered and parsed back
C16_Witness ==
    /\ bid.pc = "done"
    /\ bid.id = BlockIdHash(HashOf(16))
    /\ bid.parsed = bid.id

\* the cursors as the claim derives them from the override and the state
ClaimedUpperCursor(start_block_id, state) ==
    IF start_block_id # NoBlockId THEN start_block_id
    ELSE IF state.last_upper_synced_slot # NoSlot
      THEN BlockIdSlot(state.last_upper_synced_slot + 1)
    ELSE IF state.last_lower_synced_slot # NoSlot
      THEN BlockIdSlot(state.last_lower_synced_slot + 1)
    ELSE BlockIdSlot(1)

ClaimedLowerCursor(start_block_id, state) ==
    IF start_block_id # NoBlockId THEN start_block_id
    ELSE IF state.last_lower_synced_slot # NoSlot
      THEN BlockIdSlot(IF state.last_lower_synced_slot > 0
                         THEN state.last_lower_synced_slot - 1 ELSE 0)
    ELSE IF state.last_upper_synced_slot # NoSlot
      THEN BlockIdSlot(state.last_upper_synced_slot - 1)
    ELSE BlockIdHead

\* C17, as claimed: once Indexer::run has derived its cursors, both equal
\* the start override when there is one; otherwise the upper cursor is
\* last_upper + 1, or last_lower + 1, or 1 when neither is known, and the
\* lower cursor is max(last_lower - 1, 0), or last_upper - 1, or Head when
\* neither is known, a sink without sync state counting as neither known.
C17_Claimed ==
    co.current_upper_block_id # NoBlockId =>
       /\ co.current_upper_block_id
             = ClaimedUpperCursor(args.start_block_id, co.sync_state)
       /\ co.current_lower_block_id
             = ClaimedLowerCursor(args.start_block_id, co.sync_state)

\* C18 (task set without an end block): when Indexer::run, called without
\* end_block_id, spawns its tasks, it spawns the realtime task on the upper
\* cursor; it spawns the historical task on the lower cursor exactly when
\* disable_sync_historical is not set and the lower cursor is not a slot
\* below the fork slot; and total_tasks, the number of Done messages it
\* waits for, is the number of tasks it spawned.
C18_TaskSet ==
    [][(co.pc = "start" /\ co'.pc = "recv" /\ args.end_block_id = NoBlockId) =>
          /\ rt'.pc = "spawned"
          /\ rt'.start_block_id = co'.current_upper_block_id
          /\ hist'.pc \in {"off", "loop"}
          /\ hist'.pc = "loop" <=>
                /\ ~args.disable_sync_historical
                /\ ~(/\ co'.current_lower_block_id.tag = "Slot"
                      /\ co'.current_lower_block_id.slot < args.dencun_fork_slot)
          /\ hist'.pc = "loop" =>
                /\ hist'.start_block_id = co'.current_lower_block_id
                /\ hist'.end_block_id = BlockIdSlot(args.dencun_fork_slot)
          /\ co'.total_tasks = Cardinality({t \in Tasks :
                                   \/ t = "rt" /\ rt'.pc = "spawned"
                                   \/ t = "hist" /\ hist'.pc = "loop"})
          /\ co'.completed_tasks = 0]_vars

\* without end block and with historical syncing enabled, only the realtime
\* task was spawned, the lower cursor being a slot below the fork slot
C18_Witness ==
    /\ co.pc = "recv"
    /\ args.end_block_id = NoBlockId
    /\ ~args.disable_sync_historical
    /\ co.current_lower_block_id.tag = "Slot"
    /\ co.current_lower_block_id.slot < args.dencun_fork_slot
    /\ co.total_tasks = 1
    /\ rt.pc = "spawned"
    /\ hist.pc = "off"

\* C19, as claimed: whatever the sink's sync state and the start override,
\* no slot is processed both by a run of the realtime task and by a run of
\* the historical task.
C19_Claimed ==
    \A x \in 0..SlotTop :
       ~(sync["rt"].calls[x] > 0 /\ sync["hist"].calls[x] > 0)

\* C20, as claimed: when a chunk [a, b) of a sweep has succeeded and its
\* checkpoint is written, an Upper synchronizer sets last_upper_synced_slot
\* to b - 1 and a Lower synchronizer sets last_lower_synced_slot to b, the
\* chunk's end slot, each leaving the other fields of the sink's sync
\* state as they were.
C20_Claimed ==
    [][\A t \in Tasks :
          (/\ sync[t].phase = "ckpt"
           /\ sync[t].final_chunk_slot > sync[t].current_slot
           /\ Len(sync'[t].written) = Len(sync[t].written) + 1) =>
             LET b == sync[t].final_chunk_slot
             IN  /\ CheckpointTypeOf(t) = "Upper" =>
                       /\ sync_state'.last_upper_synced_slot = b - 1
                       /\ sync_state'.last_lower_synced_slot
                             = sync_state.last_lower_synced_slot
                 /\ CheckpointTypeOf(t) = "Lower" =>
                       /\ sync_state'.last_lower_synced_slot = b
                       /\ sync_state'.last_upper_synced_slot
                             = sync_state.last_upper_synced_slot
                 /\ sync_state'.last_finalized_block
                       = sync_state.last_finalized_block]_vars

(* --------------------------- claims: C21 .. C30 ------------------------ *)
\* C21, as claimed: a run(from, to) with from > to of a synchronizer of
\* checkpoint type Lower does not report the start-greater-than-final
\* error: it processes the slots from - 1 down to to, and once it has
\* returned Ok each of them was processed exactly once and no other slot.
C21_Claimed ==
    \A t \in Tasks :
       (CheckpointTypeOf(t) = "Lower" /\ sync[t].from > sync[t].to) =>
          /\ sync[t].error # "start_greater_than_final"
          /\ sync[t].phase = "ok" =>
                \A x \in 0..SlotTop :
                   sync[t].calls[x]
                     = IF sync[t].to <= x /\ x < sync[t].from THEN 1 ELSE 0

\* C22 (sequential chunks): in one run, a slot is processed only while its
\* own chunk [current_slot, final_chunk_slot) is the chunk in progress: by
\* then every slot of the earlier chunks has been processed, the
\* checkpoint of the previous chunk has been written, and no slot of a
\* later chunk has been touched; and the run moves to the next chunk only
\* from the checkpoint write of a chunk all of whose workers have finished.
C22_SequentialChunks ==
    [][\A t \in Tasks :
          /\ \A x \in 0..SlotTop :
                sync'[t].calls[x] > sync[t].calls[x] =>
                   /\ sync[t].phase = "workers"
                   /\ sync[t].current_slot <= x
                   /\ x < sync[t].final_chunk_slot
                   /\ \A y \in 0..SlotTop :
                         /\ (sync[t].from <= y /\ y < sync[t].current_slot)
                               => sync[t].calls[y] = 1
                         /\ y >= sync[t].final_chunk_slot => sync[t].calls[y] = 0
                   /\ (/\ sync[t].current_slot > sync[t].from
                        /\ CheckpointTypeOf(t) # "Disabled") =>
                         /\ sync[t].written # <<>>
                         /\ sync[t].written[Len(sync[t].written)]
                               = sync[t].current_slot - 1
          /\ (/\ sync[t].phase # "idle"
               /\ sync'[t].current_slot # sync[t].current_slot) =>
                 /\ sync[t].phase = "ckpt"
                 /\ \A k \in DOMAIN sync[t].workers :
                       sync[t].workers[k].res = "ok"]_vars

\* a slot of the second chunk of a run with two workers per chunk has been
\* processed, the first chunk's checkpoint being written
C22_Witness ==
    \E t \in Tasks :
       /\ sync[t].phase = "workers"
       /\ sync[t].current_slot = sync[t].from + 2
       /\ Len(sync[t].workers) = 2
       /\ sync[t].calls[sync[t].current_slot] = 1
       /\ Len(sync[t].written) = 1

\* the workers of the chunk in progress that returned Err or panicked
FailedWorkers(t) ==
    {k \in DOMAIN sync[t].workers : sync[t].workers[k].res \in {"err", "panic"}}

\* C23 (worker join): a chunk's result is decided only when every worker of
\* the chunk has finished; the chunk fails exactly when a worker returned
\* Err or panicked; a failed chunk, a panicked worker included, makes run
\* return the failed-slots-processing error (the run does not panic) whose
\* aggregate holds exactly one entry per failed worker; and a failed worker
\* has processed no slot after its first failed one.
C23_WorkerJoin ==
    /\ [][\A t \in Tasks :
             (sync[t].phase = "workers" /\ sync'[t].phase # "workers") =>
                /\ \A k \in DOMAIN sync[t].workers :
                      sync[t].workers[k].res \in {"ok", "err", "panic"}
                /\ sync'[t].phase \in {"ckpt", "err"}
                /\ sync'[t].phase = "err" <=> FailedWorkers(t) # {}
                /\ sync'[t].phase = "err" =>
                      /\ sync'[t].error = "failed_slots_processing"
                      /\ Len(sync'[t].errors) = Cardinality(FailedWorkers(t))
                      /\ \A k \in FailedWorkers(t) :
                            \E i \in 1..Len(sync'[t].errors) :
                               /\ sync'[t].errors[i].worker = k
                               /\ sync'[t].errors[i].kind = sync[t].workers[k].res
                /\ sync'[t].phase = "ckpt" => sync'[t].errors = <<>>]_vars
    /\ [](\A t \in Tasks : \A k \in FailedWorkers(t) :
             /\ sync[t].workers[k].initial <= sync[t].workers[k].next
             /\ sync[t].workers[k].next < sync[t].workers[k].final
             /\ sync[t].calls[sync[t].workers[k].next] = 1
             /\ \A x \in 0..SlotTop :
                   (sync[t].workers[k].next < x /\ x < sync[t].workers[k].final)
                      => sync[t].calls[x] = 0)

\* a chunk of two workers has failed: the first worker panicked on its first
\* slot, the second one went on and processed its slot
C23_Witness ==
    \E t \in Tasks :
       /\ sync[t].phase = "err"
       /\ Len(sync[t].workers) = 2
       /\ sync[t].workers[1].res = "panic"
       /\ sync[t].workers[2].res = "ok"
       /\ sync[t].calls[sync[t].workers[2].initial] = 1
       /\ Len(sync[t].errors) = 1

\* C24 (checkpoint failure aborts the sweep): when the checkpoint write
\* that follows a successful chunk has failed for good, run has returned
\* an error: the chunk's slots were processed, no slot of a later chunk is
\* ever processed, and nothing more is written by that run.
C24_CheckpointFailureAborts ==
    /\ [](\A t \in Tasks :
             sync[t].error = "checkpoint" =>
                /\ sync[t].phase = "err"
                /\ \A x \in 0..SlotTop :
                      /\ (sync[t].current_slot <= x /\ x < sync[t].final_chunk_slot)
                            => sync[t].calls[x] = 1
                      /\ x >= sync[t].final_chunk_slot => sync[t].calls[x] = 0)
    /\ [][\A t \in Tasks :
             sync[t].error = "checkpoint" =>
                /\ sync'[t] = sync[t]
                /\ sync_state' = sync_state]_vars

\* the checkpoint write of the first of several chunks has failed
C24_Witness ==
    \E t \in Tasks :
       /\ sync[t].error = "checkpoint"
       /\ sync[t].current_slot = sync[t].from
       /\ sync[t].final_chunk_slot > sync[t].current_slot
       /\ sync[t].final_chunk_slot < sync[t].to
       /\ sync[t].written = <<>>

\* C25, as claimed: in process_slot a failed call of a network step (beacon
\* block, execution block, proposer validator, sink index) is retried while
\* retries are left, so a network error fails the slot only once the
\* step's retries are used up; and a retry of a step repeats no call of an
\* earlier step.
C25_Claimed ==
    [][/\ (ps'.pc = "err" /\ ps'.error = "network") => ps'.retries = MaxStepRetries
       /\ \A step \in Steps :
             (ps.pc # step /\ ps.attempts[step] > 0)
                => ps'.attempts[step] = ps.attempts[step]]_vars

\* C26, as claimed: when the beacon block of the slot has an execution
\* payload and the execution node has no block for its hash, process_slot
\* returns an error value: it neither succeeds nor panics, and the sink's
\* index is not called.
C26_Claimed ==
    (/\ ps.slot # 0
     /\ ps.beacon = "payload"
     /\ ps.execution = "none"
     /\ PsReturned) =>
       /\ ps.pc = "err"
       /\ ps.attempts["validator"] = 0
       /\ ps.attempts["index"] = 0

\* C27, as claimed: when the handling of a chain_reorg event of slot s has
\* failed, the realtime task makes one update of the sync state that sets
\* only last_upper_synced_slot, to s - 1, or leaves the state as it was
\* when that update fails; it then ends having sent one Error to the
\* coordinator; and s - 1 is a slot number (not negative, and not the value
\* of a wrapped subtraction) for every s, 0 included.
C27_Claimed ==
    [][(rt.pc = "reorg_failed" /\ rt' # rt) =>
          /\ rt'.pc = "error"
          /\ chan' = Append(chan, "Error")
          /\ \/ sync_state' = sync_state
             \/ /\ rt.reorg.slot - 1 >= 0
                /\ sync_state' = [sync_state EXCEPT
                                    !.present = TRUE,
                                    !.last_upper_synced_slot = rt.reorg.slot - 1]]_vars

\* the realtime synchronizer is inside a run: its workers process slots or
\* its checkpoint is being written
RtRunInFlight == sync["rt"].phase \in {"workers", "ckpt"}

\* C28 (serialized event handling): the realtime task takes an event from
\* the stream only when no handler is in progress; while a chain_reorg is
\* being handled no run of the realtime synchronizer is in flight, so a
\* call of handle_reorged_slots or a write of last_finalized_block never
\* falls between the slot processing and checkpoint writes of a head sync,
\* and those happen only inside the head handler.
C28_SerializedEvents ==
    /\ [](rt.pc \in {"reorg", "reorg_failed"} => ~RtRunInFlight)
    /\ [](RtRunInFlight => rt.pc = "head")
    /\ [][/\ rt'.events # rt.events =>
                /\ rt.pc = "idle"
                /\ ~RtRunInFlight
          /\ sink_log' # sink_log =>
                /\ rt.pc = "reorg"
                /\ ~RtRunInFlight
          /\ sync_state'.last_finalized_block # sync_state.last_finalized_block =>
                /\ rt.pc = "idle"
                /\ ~RtRunInFlight
          /\ (sync'["rt"] # sync["rt"]) =>
                /\ rt.pc \in {"idle", "head"}
                /\ rt'.pc = "head"
                /\ rt'.reorg = IdleReorg]_vars

\* a chain_reorg event is being handled after a head event whose sync
\* processed a slot and returned
C28_Witness ==
    /\ rt.pc = "reorg"
    /\ Len(rt.heads) = 1
    /\ sync["rt"].phase = "ok"
    /\ \E x \in 0..SlotTop : sync["rt"].calls[x] = 1

\* C29 (stream failure handling): an error delivered by the event stream
\* while retries are left is retried: the task counts it, sends nothing
\* and keeps consuming the stream; the first stream error with the retries
\* used up ends the task, which sends exactly one Error and nothing after
\* it; and the coordinator, once the realtime task has ended on a stream
\* error, never returns Ok.
C29_StreamFailure ==
    /\ [](rt.retries <= MaxStreamRetries)
    /\ [](rt.error = "stream" => (rt.pc = "error" /\ co.pc # "ok"))
    /\ [][/\ rt'.retries # rt.retries =>
                /\ rt.retries < MaxStreamRetries
                /\ rt'.retries = rt.retries + 1
                /\ rt.pc = "idle" /\ rt'.pc = "idle"
                /\ chan' = chan /\ senders' = senders
          /\ (rt.error = "none" /\ rt'.error = "stream") =>
                /\ rt.pc = "idle"
                /\ rt.retries = MaxStreamRetries
                /\ chan' = Append(chan, "Error")
                /\ "rt" \notin senders'
          /\ rt.error = "stream" =>
                /\ rt' = rt
                /\ Len(chan') <= Len(chan) \/ "hist" \in senders
          /\ (rt.error = "stream" /\ co.pc = "recv" /\ co'.pc # "recv"
                /\ chan # <<>> /\ chan[1] = "Error") => co'.pc = "err"]_vars

\* the stream failed twice: the first error was retried, the second ended
\* the task, and the coordinator returned the error it received
C29_Witness ==
    /\ rt.error = "stream"
    /\ rt.retries = MaxStreamRetries
    /\ rt.retries > 0
    /\ co.pc = "err"
    /\ hist.pc = "off"

\* C30 (finalized checkpoint frame): a step that changes the sink's
\* last_finalized_block is the handling of a finalized_checkpoint event: it
\* sets that field to the execution block number of the finalized block
\* and leaves last_lower_synced_slot and last_upper_synced_slot as they
\* were, the task going on; and when the finalized block is missing or has
\* no execution payload the sink's sync state is not touched and the task
\* ends having sent an Error.
C30_FinalizedFrame ==
    [][/\ sync_state'.last_finalized_block # sync_state.last_finalized_block =>
             /\ rt.pc = "idle" /\ rt'.pc = "idle"
             /\ rt'.events = rt.events + 1
             /\ sync_state'.last_finalized_block \in BlockNumbers
             /\ sync_state'.last_lower_synced_slot = sync_state.last_lower_synced_slot
             /\ sync_state'.last_upper_synced_slot = sync_state.last_upper_synced_slot
             /\ chan' = chan
       /\ (rt.error = "none"
              /\ rt'.error \in {"finalized_missing", "finalized_no_payload"}) =>
             /\ sync_state' = sync_state
             /\ rt'.pc = "error"
             /\ chan' = Append(chan, "Error")]_vars

\* a finalized_checkpoint event was handled on a sink that held both
\* cursors: the finalized block number is written beside them
C30_Witness ==
    /\ rt.pc = "idle"
    /\ rt.events = 1
    /\ rt.heads = <<>>
    /\ sync_state.last_finalized_block = 1
    /\ sync_state.last_lower_synced_slot = 2
    /\ sync_state.last_upper_synced_slot = 2

(* --------- SlotProcessor::process_slot, as a synchronizer worker calls it --------- *)

MaxTxs == 2
MaxBlobs == 2

\* create_tx_hash_versioned_hashes_mapping: the transactions that carry at
\* least one versioned hash, by their position in the execution block
TxHashToVersionedHashes(transactions) ==
    {i \in 1..Len(transactions) : transactions[i] > 0}

\* the number of versioned hashes of the transactions before the i-th
RECURSIVE HashesBefore(_, _)
HashesBefore(transactions, i) ==
    IF i <= 1 THEN 0
    ELSE HashesBefore(transactions, i - 1) + transactions[i - 1]

\* the versioned hashes of the block, numbered in block order: the k-th blob
\* of the sidecar is the one the k-th versioned hash refers to
VersionedHash(transactions, i, j) == HashesBefore(transactions, i) + j

\* transactions_entities: only the transactions found in the mapping
TransactionsEntities(transactions) ==
    SelectSeq([i \in 1..Len(transactions) |-> i],
              LAMBDA i : i \in TxHashToVersionedHashes(transactions))

\* blob_entities: one entity per versioned hash of each mapped transaction
BlobEntities(transactions) ==
    UNION {{[tx |-> i, index |-> j - 1] : j \in 1..transactions[i]} :
           i \in TxHashToVersionedHashes(transactions)}

\* versioned_hash_to_blob.get(versioned_hash) finds no blob of the sidecar
SidecarNotFound ==
    \E i \in TxHashToVersionedHashes(sp.transactions) :
        \E j \in 1..sp.transactions[i] :
            VersionedHash(sp.transactions, i, j) > sp.sidecar

SpEnds(pc, error) == sp' = [sp EXCEPT !.pc = pc, !.error = error]

\* get_block, the execution payload and the blob KZG commitments of the body
SpBeaconBlock ==
    /\ sp.pc = "start"
    /\ IF sp.beacon = "error" THEN SpEnds("err", "client")
       ELSE IF sp.beacon \in {"none", "no_payload"} THEN SpEnds("ok", "none")
       ELSE IF sp.commitments = NoSlot \/ sp.commitments = 0
       THEN SpEnds("ok", "none")
       ELSE SpEnds("execution", "none")
    /\ UNCHANGED <<args, sync_state, co, chan, senders, rt, hist, sync, sink_log,
                   headers, ps, bid, sched>>

\* get_block_with_txs and the mapping of its blob transactions
SpExecutionBlock ==
    /\ sp.pc = "execution"
    /\ IF sp.execution = "error" THEN SpEnds("err", "provider")
       ELSE IF sp.execution = "none" THEN SpEnds("err", "not_found")
       ELSE IF TxHashToVersionedHashes(sp.transactions) = {}
       THEN SpEnds("err", "blocks_mismatch")
       ELSE SpEnds("blobs", "none")
    /\ UNCHANGED <<args, sync_state, co, chan, senders, rt, hist, sync, sink_log,
                   headers, ps, bid, sched>>

\* get_blobs: an absent or empty sidecar skips the slot
SpBlobs ==
    /\ sp.pc = "blobs"
    /\ IF sp.sidecar = NoSlot \/ sp.sidecar = 0 THEN SpEnds("ok", "none")
       ELSE SpEnds("entities", "none")
    /\ UNCHANGED <<args, sync_state, co, chan, senders, rt, hist, sync, sink_log,
                   headers, ps, bid, sched>>

\* the entities and the sink's index call
SpIndex ==
    /\ sp.pc = "entities"
    /\ IF SidecarNotFound THEN SpEnds("err", "sidecar_not_found")
       ELSE \E indexed \in BOOLEAN :
              sp' = [sp EXCEPT
                  !.pc = IF indexed THEN "ok" ELSE "err",
                  !.error = IF indexed THEN "none" ELSE "client",
                  !.index = [made |-> TRUE,
                             transactions |-> TransactionsEntities(sp.transactions),
                             blobs |-> BlobEntities(sp.transactions)]]
    /\ UNCHANGED <<args, sync_state, co, chan, senders, rt, hist, sync, sink_log,
                   headers, ps, bid, sched>>

\* the blocks a worker's slot can hold
TransactionLists == UNION {SeqsOf(0..1, n) : n \in 0..MaxTxs}

WorkerSlotInit ==
    /\ args = [start_block_id |-> NoBlockId, end_block_id |-> NoBlockId,
               dencun_fork_slot |-> 1, disable_sync_historical |-> FALSE,
               disable_sync_checkpoint_save |-> FALSE,
               slots_per_save |-> NoSlot, num_threads |-> 1]
    /\ sync_state = NoState
    /\ headers \in ChainStores
    /\ co = IdleCo
    /\ chan = <<>>
    /\ senders = {"tx", "tx1"}
    /\ rt = IdleRt
    /\ hist = IdleHist
    /\ sync = [t \in Tasks |-> IdleSync]
    /\ sink_log = <<>>
    /\ ps = IdlePs
    /\ bid = IdleBid
    /\ \E beacon \in {"error", "none", "no_payload", "payload"},
          commitments \in {NoSlot} \cup 0..MaxBlobs,
          execution \in {"error", "none", "block"},
          transactions \in TransactionLists,
          sidecar \in {NoSlot} \cup 0..MaxBlobs :
         sp = [IdleSp EXCEPT !.pc = "start", !.beacon = beacon,
                             !.commitments = commitments, !.execution = execution,
                             !.transactions = transactions, !.sidecar = sidecar]
    /\ sched = IdleSched

WorkerSlotNext == SpBeaconBlock \/ SpExecutionBlock \/ SpBlobs \/ SpIndex

SpecWorkerSlot == WorkerSlotInit /\ [][WorkerSlotNext]_vars

(* ------------- the retry sleeps on the runtime's threads --------------- *)
\* sleep is std::thread::sleep in slots_processor/mod.rs and indexer/mod.rs:
\* the calling task keeps its runtime thread for the whole delay. A task
\* suspended at an .await holds no thread and needs a free one for its next step

MaxRuntimeThreads == 2

SleepTasks == {"co", "rt", "ps"}

FreeThread == Cardinality(sched.asleep) < sched.threads

\* step A of task t is taken by the runtime
Scheduled(t, A) ==
    /\ t \notin sched.asleep
    /\ FreeThread
    /\ A

Sleeps(t) == sched' = [sched EXCEPT !.asleep = @ \cup {t}]

\* Err(_) if retries < max_retries in the realtime loop: retries += 1 and
\* sleep(delay)
RtStreamSleep ==
    /\ Alive
    /\ AwaitsEvent
    /\ rt.events < MaxEvents
    /\ rt.retries < MaxStreamRetries
    /\ rt' = [rt EXCEPT !.retries = @ + 1, !.events = @ + 1]
    /\ Sleeps("rt")
    /\ UNCHANGED <<args, sync_state, co, chan, senders, hist, sync, sink_log,
                   headers, ps, bid, sp>>

\* Err(_) if retries < max_retries in a loop of process_slot: retries += 1
\* and sleep(delay)
PsSleep ==
    /\ ps.pc \in {"beacon", "execution", "index"}
    /\ ps.retries < MaxStepRetries
    /\ ps' = Retried(ps)
    /\ Sleeps("ps")
    /\ UNCHANGED <<args, sync_state, co, chan, senders, rt, hist, sync, sink_log,
                   headers, bid, sp>>

\* the delay of a sleeping task is over
Wake ==
    \E t \in sched.asleep :
        /\ sched' = [sched EXCEPT !.asleep = @ \ {t}]
        /\ UNCHANGED <<args, sync_state, co, chan, senders, rt, hist, sync,
                       sink_log, headers, ps, bid, sp>>

\* the indexer started without arguments and without historical sync beside
\* one process_slot call, on a runtime of one or more threads
SleepInit ==
    /\ args = [start_block_id |-> NoBlockId, end_block_id |-> NoBlockId,
               dencun_fork_slot |-> 1, disable_sync_historical |-> TRUE,
               disable_sync_checkpoint_save |-> FALSE,
               slots_per_save |-> NoSlot, num_threads |-> 1]
    /\ sync_state = NoState
    /\ headers = NoHeader
    /\ co = [IdleCo EXCEPT !.pc = "start"]
    /\ chan = <<>>
    /\ senders = {"tx", "tx1"}
    /\ rt = IdleRt
    /\ hist = IdleHist
    /\ sync = [t \in Tasks |-> IdleSync]
    /\ sink_log = <<>>
    /\ ps = [IdlePs EXCEPT !.pc = "start", !.slot = 1, !.beacon = "payload",
                           !.execution = "txs", !.validator = "some"]
    /\ bid = IdleBid
    /\ sp = IdleSp
    /\ \E n \in 1..MaxRuntimeThreads : sched = [threads |-> n, asleep |-> {}]

SleepNext ==
    \/ Scheduled("co", Start)
    \/ Scheduled("co", RecvError)
    \/ Scheduled("rt", RtSubscribe)
    \/ Scheduled("rt", RtStreamSleep)
    \/ Scheduled("rt", RtStreamGiveUp)
    \/ Scheduled("ps", co.pc = "recv" /\ PsBegin)  \* called by a spawned task
    \/ Scheduled("ps", PsBeaconBlock)
    \/ Scheduled("ps", PsExecutionBlock)
    \/ Scheduled("ps", PsValidator)
    \/ Scheduled("ps", PsIndex)
    \/ Scheduled("ps", PsSleep)
    \/ Scheduled("ps", PsGiveUp)
    \/ Wake

SpecSleep == SleepInit /\ [][SleepNext]_vars

\* task t has a step its own code enables
Runnable(t) ==
    CASE t = "co" -> ENABLED (Start \/ RecvError)
      [] t = "rt" -> ENABLED (RtSubscribe \/ RtStreamGiveUp)
      [] OTHER -> ENABLED ((co.pc = "recv" /\ PsBegin) \/ PsBeaconBlock \/ PsExecutionBlock
                           \/ PsValidator \/ PsIndex \/ PsGiveUp)

(* ------------- the historical task with its retries, alone ------------- *)
\* the indexer started without arguments on an empty sink, the fork slot above
\* slot 1: the lower cursor is the head, which the beacon node resolves anew
\* on every run
HistInit ==
    /\ \E slots_per_save \in {NoSlot, 0, 1} :
         args = [start_block_id |-> NoBlockId, end_block_id |-> NoBlockId,
                 dencun_fork_slot |-> MaxSlot - 1,
                 disable_sync_historical |-> FALSE,
                 disable_sync_checkpoint_save |-> FALSE,
                 slots_per_save |-> slots_per_save, num_threads |-> 1]
    /\ sync_state = NoState
    /\ headers = NoHeader
    /\ co = [IdleCo EXCEPT !.pc = "start"]
    /\ chan = <<>>
    /\ senders = {"tx", "tx1"}
    /\ rt = IdleRt
    /\ hist = IdleHist
    /\ sync = [t \in Tasks |-> IdleSync]
    /\ sink_log = <<>>
    /\ ps = IdlePs
    /\ bid = IdleBid
    /\ sp = IdleSp
    /\ sched = IdleSched

HistNext ==
    \/ Start \/ RecvDone \/ RecvError
    \/ HistRun \/ HistDone \/ HistRetry \/ HistGiveUp \/ HistPanic
    \/ SyncStep

SpecHist == HistInit /\ [][HistNext]_vars

(* --------------- the realtime task on head events alone ---------------- *)
\* the indexer started without arguments on an empty sink, historical sync
\* disabled: only the head handler writes last_upper_synced_slot
HeadsInit ==
    /\ \E slots_per_save \in {NoSlot, 0, 1} :
         args = [start_block_id |-> NoBlockId, end_block_id |-> NoBlockId,
                 dencun_fork_slot |-> 1, disable_sync_historical |-> TRUE,
                 disable_sync_checkpoint_save |-> FALSE,
                 slots_per_save |-> slots_per_save, num_threads |-> 1]
    /\ sync_state = NoState
    /\ headers = NoHeader
    /\ co = [IdleCo EXCEPT !.pc = "start"]
    /\ chan = <<>>
    /\ senders = {"tx", "tx1"}
    /\ rt = IdleRt
    /\ hist = IdleHist
    /\ sync = [t \in Tasks |-> IdleSync]
    /\ sink_log = <<>>
    /\ ps = IdlePs
    /\ bid = IdleBid
    /\ sp = IdleSp
    /\ sched = IdleSched

HeadsNext ==
    \/ Start \/ RecvError
    \/ RtSubscribe \/ RtHead \/ RtHeadOk \/ RtHeadError \/ RtHeadPanic
    \/ SyncStep

SpecHeads == HeadsInit /\ [][HeadsNext]_vars

(* --- claims: C31 .. C39 --- *)

\* C31: when a synchronizer worker's process_slot returns Ok for a slot whose
\* execution block holds transactions, the sink has received an index call
\* with every transaction of the block, and with an empty blob list when the
\* beacon block carries no blob KZG commitments.
C31_Claimed ==
    (/\ sp.pc = "ok"
     /\ sp.beacon = "payload"
     /\ sp.execution = "block"
     /\ Len(sp.transactions) > 0)
    => /\ sp.index.made
       /\ sp.index.transactions = [i \in 1..Len(sp.transactions) |-> i]
       /\ (sp.commitments \in {NoSlot, 0} => sp.index.blobs = {})

\* C32: an event whose name is none of head, chain_reorg and
\* finalized_checkpoint ends the realtime task with exactly one Error message:
\* the step processes no slot and writes no sync state, and afterwards the
\* task handles no further event and starts no synchronizer run.
C32_UnexpectedEvent ==
    [][/\ (rt'.error = "unexpected_event" /\ rt.error /= "unexpected_event")
          => /\ rt.pc = "idle"
             /\ rt'.pc = "error"
             /\ rt'.events = rt.events + 1
             /\ chan' = Append(chan, "Error")
             /\ "rt" \notin senders'
             /\ sync_state' = sync_state
             /\ sync' = sync
             /\ sink_log' = sink_log
             /\ rt'.calls = rt.calls
             /\ rt'.heads = rt.heads
       /\ rt.error = "unexpected_event"
          => /\ rt' = rt
             /\ sync'["rt"] = sync["rt"]
             /\ sink_log' = sink_log]_vars

\* the coordinator has returned the error of a realtime task that met an
\* unknown event after handling a head event
C32_Witness ==
    /\ rt.error = "unexpected_event"
    /\ rt.pc = "error"
    /\ Len(rt.heads) > 0
    /\ co.pc = "err"

\* C33: while a task waits between two retry attempts, every other task that
\* has an enabled step finds a runtime thread to take it.
C33_Claimed ==
    \A t \in sched.asleep :
        \A u \in SleepTasks \ sched.asleep : Runnable(u) => FreeThread

\* C34: once the historical task has written last_lower_synced_slot, no later
\* write of the task, in the same sweep or in a retry, sets a greater value.
C34_Claimed ==
    [][sync_state.last_lower_synced_slot /= NoSlot
          => sync_state'.last_lower_synced_slot
                <= sync_state.last_lower_synced_slot]_vars

\* C35: Indexer::run never waits for a message that cannot come: while it is
\* at rx.recv() on an empty channel, a spawned task still holds a Sender or
\* every Sender is dropped (recv then yields None and run returns).
C35_Claimed ==
    (co.pc = "recv" /\ chan = <<>>)
        => (senders = {} \/ senders \cap Tasks /= {})

\* C36: started without a start override on a sink state whose
\* last_lower_synced_slot is L, a historical task that has reported Done has
\* passed every slot of [dencun_fork_slot, L) to process_slot.
C36_Claimed ==
    (/\ hist.pc = "done"
     /\ args.start_block_id = NoBlockId
     /\ co.sync_state.present
     /\ co.sync_state.last_lower_synced_slot /= NoSlot)
    => \A s \in Slots :
          (args.dencun_fork_slot <= s /\ s < co.sync_state.last_lower_synced_slot)
             => sync["hist"].calls[s] > 0

\* C37: once head handling has written last_upper_synced_slot, no later write
\* of head handling sets a smaller value, whatever the slots of the head events.
C37_Claimed ==
    [][sync_state.last_upper_synced_slot /= NoSlot
          => sync_state'.last_upper_synced_slot
                >= sync_state.last_upper_synced_slot]_vars

\* C38: for the first head event, of slot S, handled from an upper cursor
\* Slot(c): if S + 1 < c the synchronizer run ends with the
\* start-greater-than-final error, no slot is processed, nothing is written,
\* and the realtime task ends with an Error message to the coordinator; if
\* S + 1 = c the run returns Ok with no slot processed.
C38_HeadBehindCursor ==
    (Len(rt.heads) = 1 /\ rt.start_block_id.tag = "Slot")
    => LET S == rt.heads[1]
           c == rt.start_block_id.slot
           untouched == /\ \A s \in 0..SlotTop : sync["rt"].calls[s] = 0
                        /\ sync["rt"].written = <<>>
       IN /\ rt.calls = <<[from |-> c, to |-> S + 1]>>
          /\ S + 1 < c
               => /\ sync["rt"].phase = "err"
                  /\ sync["rt"].error = "start_greater_than_final"
                  /\ untouched
                  /\ rt.pc \in {"head", "error"}
                  /\ rt.pc = "error"
                       => /\ "rt" \notin senders
                          /\ \/ \E i \in 1..Len(chan) : chan[i] = "Error"
                             \/ co.pc = "err"
          /\ S + 1 = c
               => /\ sync["rt"].phase = "ok"
                  /\ untouched
                  /\ rt.pc = "error" => (rt.events > 1 \/ rt.error = "stream")

\* the coordinator has returned the Error of a realtime task whose first head
\* was two slots behind the upper cursor of the sink's state
C38_Witness ==
    /\ Len(rt.heads) = 1
    /\ args.start_block_id = NoBlockId
    /\ rt.start_block_id = BlockIdSlot(3)
    /\ rt.heads[1] = 0
    /\ rt.pc = "error"
    /\ co.pc = "err"

\* C39: every iteration of run's loop that completes (the chunk's checkpoint
\* write returned Ok and the loop went on) leaves strictly fewer unprocessed
\* slots than it found, for every chunk size.
C39_Claimed ==
    [][\A t \in Tasks :
          (/\ sync[t].phase = "ckpt"
           /\ sync'[t] /= sync[t]
           /\ sync'[t].phase \in {"workers", "ckpt", "ok"})
          => sync'[t].unprocessed_slots < sync[t].unprocessed_slots]_vars

====
